---- MODULE Spec2Model ----
(***************************************************************************)
(* Shared-ride ledger: the entry upsert of backend/server.js over the      *)
(* spreadsheet row store (day_entries, day_riders), the weighted split     *)
(* with drift correction, the month read, the member and rate handlers,    *)
(* and the month balances and settle-up transfers of the frontend.         *)
(*                                                                         *)
(* Money.  Charges and totals are whole cents after round2.  Driver rates  *)
(* are read back from the sheet with Number() and may carry any number of  *)
(* decimals; they are kept in mills (1/1000 of a dollar), so 10 mills are  *)
(* one cent and round2 is a real conversion.                               *)
(*                                                                         *)
(* round2 is Math.round(x * 100) / 100 on IEEE doubles.  Math.round takes  *)
(* an exact half up (towards +infinity), but a value that is a half cent   *)
(* in decimal arithmetic is in general not representable: the double lies  *)
(* at, a hair above or a hair below the half, and Math.round follows it.   *)
(* Away from the halves the result is the nearest cent.  Where the doubles *)
(* of the handler land below the half is tabulated (ShareLandsLow,         *)
(* DriftLandsLow) for the amounts the specifications draw from: rates of   *)
(* 1..MaxRate + 1 mills with up to MaxRiders + 1 riders, rates of          *)
(* 1..MaxCents + 1 whole cents with up to MaxCentRiders + 1 riders, and    *)
(* StoreRates and the rates of RatePairs, which meet no half.              *)
(***************************************************************************)
EXTENDS Integers, Sequences, FiniteSets, TLC

\* ---------------------------------------------------------------- bounds
MaxOps == 4
MaxRiders == 3
MaxRate == 40
MaxConcOps == 2

\* ------------------------------------------------------------ vocabulary
MemberIds == {"a", "b", "c"}
TripTypes == {"one_way", "two_way"}
Dates == {"2025-01-06", "2025-01-07"}
Months == {"2025-01", "2025-02"}
Procs == {1, 2}

TAB_DAY_ENTRIES ==
  [entry_id |-> "entry_id", date |-> "date", driver_id |-> "driver_id",
   day_type |-> "day_type", day_total_used |-> 0, total_amount |-> 0,
   notes |-> "notes", created_at |-> 0]

TAB_DAY_RIDERS ==
  [entry_id |-> "entry_id", member_id |-> "member_id",
   trip_type |-> "trip_type", units |-> 0, charge |-> 0]

\* String(date).startsWith(month)
StartsWith(date, month) ==
  \/ date = "2025-01-06" /\ month = "2025-01"
  \/ date = "2025-01-07" /\ month = "2025-01"

\* a.date.localeCompare(b.date) < 0
DateBefore(a, b) == a = "2025-01-06" /\ b = "2025-01-07"

\* ------------------------------------------------------------- sequences
RECURSIVE SumSeq(_)
SumSeq(s) == IF s = <<>> THEN 0 ELSE Head(s) + SumSeq(Tail(s))

\* Array.prototype.filter
Filter(s, Keep(_)) == SelectSeq(s, Keep)

Map(s, F(_)) == [i \in 1..Len(s) |-> F(s[i])]

\* Array.prototype.findIndex, 1-based; 0 when nothing matches (JS: -1)
FindIndex(s, P(_, _)) ==
  IF \E i \in 1..Len(s) : P(s[i], i)
  THEN CHOOSE i \in 1..Len(s) : P(s[i], i) /\ \A j \in 1..(i - 1) : ~P(s[j], j)
  ELSE 0

Abs(x) == IF x < 0 THEN -x ELSE x

\* ------------------------------------------------------------- row store
\* sheets.spreadsheets.values.get: the rows of the tab
getValues(sheet) == sheet

\* the rows written below what is there instead of over it
setValuesAppends(sheet, values) == sheet \o values

\* sheets.spreadsheets.values.update on the range A1:X<Len(values)>: the
\* cells of the range are overwritten, rows below the range are left alone
setValues(sheet, values) ==
  [i \in 1..(IF Len(sheet) > Len(values) THEN Len(sheet) ELSE Len(values)) |->
     IF i <= Len(values) THEN values[i] ELSE sheet[i]]

\* sheets.spreadsheets.values.append: the rows go below the last row
appendValues(sheet, values) == sheet \o values

\* ----------------------------------------------------------------- split
\* Math.round(num / den), den > 0; `low` says that the double standing for an
\* exact half lies below it
MathRound(num, den, low) ==
  LET r == (2 * num + den) \div (2 * den)
  IN  IF (2 * num + den) % (2 * den) = 0 /\ low THEN r - 1 ELSE r

\* round2 of a value given in mills, as cents
round2(mills, low) == MathRound(mills, 10, low)

\* day_total_used * (units / total_units) * 100 lies below its half
ShareLandsLow(day_total_used, units, total_units) ==
  <<day_total_used, units, total_units>> \in {<<15, 1, 3>>, <<15, 2, 6>>, <<30, 1, 6>>}

\* (day_total_used - sumCharges) * 100 lies below its half; sumCharges in cents
DriftLandsLow(day_total_used, sumCharges) ==
  <<day_total_used, sumCharges>> \in {<<15, 1>>, <<15, 2>>}

unitsForTrip(trip_type) ==
  IF trip_type = "one_way" THEN 1
  ELSE IF trip_type = "two_way" THEN 2
  ELSE 0

\* riders.map(...) of the handler: one row per rider, in input order
RiderUnits(date, riders) ==
  Map(riders, LAMBDA x : [entry_id |-> date, member_id |-> x.member_id,
                          trip_type |-> x.trip_type,
                          units |-> unitsForTrip(x.trip_type)])

TotalUnits(riderUnits) == SumSeq(Map(riderUnits, LAMBDA r : r.units))

\* the shares cut off at the cent instead of rounded
RawChargesTruncated(day_total_used, riderUnits) ==
  LET total_units == TotalUnits(riderUnits)
  IN  Map(riderUnits, LAMBDA r :
        [entry_id |-> r.entry_id, member_id |-> r.member_id,
         trip_type |-> r.trip_type, units |-> r.units,
         charge |-> (day_total_used * r.units) \div (10 * total_units)])

\* computed = riderUnits.map(r => ({...r, charge: round2(total * (units / total_units))}))
RawCharges(day_total_used, riderUnits) ==
  LET total_units == TotalUnits(riderUnits)
  IN  Map(riderUnits, LAMBDA r :
        [entry_id |-> r.entry_id, member_id |-> r.member_id,
         trip_type |-> r.trip_type, units |-> r.units,
         charge |-> MathRound(day_total_used * r.units, 10 * total_units,
                              ShareLandsLow(day_total_used, r.units, total_units))])

SumCharges(computed) == SumSeq(Map(computed, LAMBDA r : r.charge))

\* drift = round2(day_total_used - sumCharges), in cents
Drift(day_total_used, raw) ==
  round2(day_total_used - 10 * SumCharges(raw),
         DriftLandsLow(day_total_used, SumCharges(raw)))

\* the index the drift goes to: computed.findIndex(x => x.member_id === driver_id)
DriftIndex(computed, driver_id) ==
  FindIndex(computed, LAMBDA x, i : x.member_id = driver_id)

\* if (Math.abs(drift) >= 0.01) computed[i].charge = round2(computed[i].charge + drift)
ApplyDrift(raw, drift, driver_id) ==
  LET i == DriftIndex(raw, driver_id)
  IN  IF Abs(drift) >= 1 /\ i > 0
      THEN [raw EXCEPT ![i].charge = raw[i].charge + drift]
      ELSE raw

\* the rider rows with their final charges
Computed(day_total_used, date, riders, driver_id) ==
  LET raw == RawCharges(day_total_used, RiderUnits(date, riders))
  IN  ApplyDrift(raw, Drift(day_total_used, raw), driver_id)

\* total_amount = round2(sum of the final charges): a sum of whole cents
TotalAmount(computed) == SumCharges(computed)

\* ------------------------------------------------------------ the state
VARIABLES
  members,        \* members tab: member_id -> [one_way_total, two_way_total], mills
  entriesSheet,   \* day_entries tab, header row first
  ridersSheet,    \* day_riders tab, header row first
  pc,             \* per request slot: where its handler stands
  req,            \* per request slot: req.body
  day_total_used, \* handler locals
  computed,
  created_at,
  entryData,
  riderData,
  snapEntries,    \* the tabs as they were when the request was first sent
  snapRiders,
  resent,         \* the request re-sends the one that failed just before
  prevReq,        \* the body of the upsert completed just before this one
  nops,           \* requests received so far; also the clock behind created_at
  res,            \* per request slot: the response of POST /entries
  adminRes,       \* the last POST /members or /member_rates: route, body and
                  \* response
  rated,          \* the members whose rates a POST /member_rates has set
  balances,       \* frontend: the balances handed to suggestTransfers, cents
  transfers,      \* frontend: the transfers it returned
  view,           \* frontend: "loaded" once the balances are in, "settled"
                  \* once the transfers are computed from them
  hol,            \* the last GET /holidays: month asked, the year's list, the
                  \* response
  loop,           \* suggestTransfers by iteration: debtors, creditors, i, j and
                  \* the iteration just made
  monthData,      \* frontend: the entries of the month handed to
                  \* computeMonthBalances
  grp             \* multi-group backend: the last request made with a group's
                  \* credentials and its response

vars == <<members, entriesSheet, ridersSheet, pc, req, day_total_used, computed,
          created_at, entryData, riderData, snapEntries, snapRiders, resent,
          prevReq, nops, res, adminRes, rated, balances, transfers, view, hol,
          loop, monthData, grp>>

\* what the entry handler never touches
aside == <<adminRes, rated, balances, transfers, view, hol, loop, monthData,
          grp>>

locals == <<day_total_used, computed, created_at, entryData, riderData>>

NoReq == [date |-> "", driver_id |-> "", day_type |-> "", riders |-> <<>>,
          notes |-> ""]

InFlight == {"readEntries", "writeEntries", "readRiders", "writeRiders"}

\* no response yet
NoRes == [status |-> 0, error |-> ""]

\* no request to /holidays yet
NoHolidays == [month |-> <<>>, status |-> 0, year_list |-> <<>>, holidays |-> <<>>]

\* suggestTransfers not called yet
NoLoop == [debtors |-> <<>>, creditors |-> <<>>, i |-> 0, j |-> 0]

\* no request with group credentials yet
NoGroupReq == [route |-> "", group_id |-> "", join_code |-> "", body |-> <<>>,
               status |-> 0, data |-> <<>>, n |-> 0]

\* no request to /members or /member_rates yet
NoAdmin == [route |-> "", body |-> <<>>, status |-> 0, error |-> ""]

\* ------------------------------------------------------------ requests
Rider(m, t) == [member_id |-> m, trip_type |-> t]

\* one, two and three riders; "c" rides but never drives
StoreRiderLists ==
  { <<Rider("a", "two_way")>>,
    <<Rider("b", "one_way"), Rider("a", "two_way")>>,
    <<Rider("a", "one_way"), Rider("b", "one_way"), Rider("c", "one_way")>> }

StoreRequests ==
  [date : Dates, driver_id : {"a", "b"}, day_type : {"one_way"},
   riders : StoreRiderLists, notes : {""}]

\* ------------------------------------------------- POST /entries, checks
\* the early returns and throws before the first write
Rate(mem, driver_id, day_type) ==
  IF day_type = "one_way" THEN mem[driver_id].one_way_total
  ELSE mem[driver_id].two_way_total

\* the checks without the one for the driver among the riders
AcceptedDriverNotChecked(mem, r) ==
  /\ r.date \in Dates
  /\ r.driver_id # ""
  /\ r.day_type \in {"one_way", "two_way"}
  /\ Len(r.riders) > 0
  /\ r.driver_id \in DOMAIN mem
  /\ Rate(mem, r.driver_id, r.day_type) > 0
  /\ \A i \in 1..Len(r.riders) :
        /\ r.riders[i].member_id # ""
        /\ r.riders[i].trip_type \in {"one_way", "two_way"}
  /\ TotalUnits(RiderUnits(r.date, r.riders)) > 0

\* the checks without the one for the driver's rate
AcceptedRateNotChecked(mem, r) ==
  /\ r.date \in Dates
  /\ r.driver_id # ""
  /\ r.day_type \in {"one_way", "two_way"}
  /\ Len(r.riders) > 0
  /\ \E i \in 1..Len(r.riders) : r.riders[i].member_id = r.driver_id
  /\ r.driver_id \in DOMAIN mem
  /\ \A i \in 1..Len(r.riders) :
        /\ r.riders[i].member_id # ""
        /\ r.riders[i].trip_type \in {"one_way", "two_way"}
  /\ TotalUnits(RiderUnits(r.date, r.riders)) > 0

Accepted(mem, r) ==
  /\ r.date \in Dates
  /\ r.driver_id # ""
  /\ r.day_type \in {"one_way", "two_way"}
  /\ Len(r.riders) > 0
  /\ \E i \in 1..Len(r.riders) : r.riders[i].member_id = r.driver_id
  /\ r.driver_id \in DOMAIN mem
  /\ Rate(mem, r.driver_id, r.day_type) > 0
  /\ \A i \in 1..Len(r.riders) :
        /\ r.riders[i].member_id # ""
        /\ r.riders[i].trip_type \in {"one_way", "two_way"}
  /\ TotalUnits(RiderUnits(r.date, r.riders)) > 0

\* the rider the riders.map callback throws at: the first one without a
\* member_id or with a trip_type outside the two; 0 when it throws at none
ThrowingRider(riders) ==
  FindIndex(riders, LAMBDA x, i : \/ x.member_id = ""
                                  \/ x.trip_type \notin {"one_way", "two_way"})

\* res.status(...).json({error}) of a request that is turned away, the checks
\* in the order of the handler; an Error thrown in riders.map lands in the
\* catch block, which answers 400 for "Invalid trip_type" and 500 otherwise
Rejection(mem, r) ==
  IF r.date \notin Dates
  THEN [status |-> 400, error |-> "date required as YYYY-MM-DD"]
  ELSE IF r.driver_id = ""
  THEN [status |-> 400, error |-> "driver_id required"]
  ELSE IF r.day_type \notin {"one_way", "two_way"}
  THEN [status |-> 400, error |-> "day_type must be one_way or two_way"]
  ELSE IF Len(r.riders) = 0
  THEN [status |-> 400, error |-> "riders must be a non-empty array"]
  ELSE IF ~\E i \in 1..Len(r.riders) : r.riders[i].member_id = r.driver_id
  THEN [status |-> 400, error |-> "Driver must be included in riders"]
  ELSE IF DOMAIN mem = {}
  THEN [status |-> 400, error |-> "members sheet empty"]
  ELSE IF r.driver_id \notin DOMAIN mem
  THEN [status |-> 400, error |-> "Driver not found in members"]
  ELSE IF Rate(mem, r.driver_id, r.day_type) <= 0
  THEN [status |-> 400,
        error |-> "Driver rates not set (one_way_total/two_way_total)"]
  ELSE IF ThrowingRider(r.riders) > 0
  THEN IF r.riders[ThrowingRider(r.riders)].member_id = ""
       THEN [status |-> 500, error |-> "Failed to save entry"]
       ELSE [status |-> 400,
             error |-> "riders.trip_type must be one_way or two_way"]
  ELSE [status |-> 400, error |-> "No valid riders/units"]

\* the day_entries row of the request
EntryRow(p) ==
  [entry_id |-> req[p].date, date |-> req[p].date,
   driver_id |-> req[p].driver_id, day_type |-> req[p].day_type,
   day_total_used |-> day_total_used[p],
   total_amount |-> TotalAmount(computed[p]),
   notes |-> req[p].notes, created_at |-> created_at[p]]

\* the search starting one row too low
ExistingIdxSkipsFirstRow(rows, date) ==
  FindIndex(rows, LAMBDA r, i : i > 2 /\ r.date = date)

\* entryData.findIndex((r, i) => i > 0 && String(r[1] ?? "") === date)
ExistingIdx(rows, date) ==
  FindIndex(rows, LAMBDA r, i : i > 1 /\ r.date = date)

\* [riderHeader, ...riderData.slice(1).filter(r => r[0] !== date)] + computed
Kept(rows, date, comp) ==
  <<TAB_DAY_RIDERS>> \o Filter(Tail(rows), LAMBDA r : r.entry_id # date) \o comp

\* ----------------------------------------------------------- GET /entries
\* the entry objects of the month, in sheet order, riders still empty
MonthEntries(entryRows, month) ==
  IF Len(entryRows) > 1
  THEN Map(Filter(Tail(entryRows), LAMBDA r : StartsWith(r.date, month)),
           LAMBDA r : [entry_id |-> r.entry_id, date |-> r.date,
                       driver_id |-> r.driver_id, day_type |-> r.day_type,
                       day_total_used |-> r.day_total_used,
                       total_amount |-> r.total_amount, notes |-> r.notes,
                       created_at |-> r.created_at, riders |-> <<>>])
  ELSE <<>>

\* byId = new Map(entries.map(e => [e.entry_id, e])): the last entry with an
\* id is the one its rider rows are pushed to
AttachRiders(entries, riderRows) ==
  [k \in 1..Len(entries) |->
     IF /\ Len(riderRows) > 1
        /\ \A j \in (k + 1)..Len(entries) : entries[j].entry_id # entries[k].entry_id
     THEN [entries[k] EXCEPT !.riders =
             Map(Filter(Tail(riderRows),
                        LAMBDA r : r.entry_id = entries[k].entry_id),
                 LAMBDA r : [member_id |-> r.member_id, trip_type |-> r.trip_type,
                             units |-> r.units, charge |-> r.charge])]
     ELSE entries[k]]

\* entries.sort((a, b) => a.date.localeCompare(b.date)): a stable sort
RECURSIVE SortByDate(_)
SortByDate(es) ==
  IF es = <<>> THEN <<>>
  ELSE LET rest == SortByDate(Tail(es))
           k == Cardinality({i \in 1..Len(rest) : DateBefore(rest[i].date, Head(es).date)})
       IN  SubSeq(rest, 1, k) \o <<Head(es)>> \o SubSeq(rest, k + 1, Len(rest))

GetEntries(entryRows, riderRows, month) ==
  SortByDate(AttachRiders(MonthEntries(entryRows, month), riderRows))

\* -------------------------------------------------- computeMonthBalances
\* the keys of the returned object: the members, then whoever the entries name
BalanceKeys(memberList, entries) ==
  memberList
    \cup {entries[i].driver_id : i \in {j \in 1..Len(entries) : entries[j].total_amount # 0}}
    \cup UNION {{entries[i].riders[k].member_id : k \in 1..Len(entries[i].riders)} :
                i \in {j \in 1..Len(entries) : entries[j].total_amount # 0}}

\* balances[m]: + total_amount of the entries m drove, - m's charges; an entry
\* with total_amount 0 is skipped whole; round2 of whole cents at the end
computeMonthBalances(memberList, entries) ==
  [m \in BalanceKeys(memberList, entries) |->
     SumSeq([i \in 1..Len(entries) |->
       IF entries[i].total_amount = 0 THEN 0
       ELSE (IF entries[i].driver_id = m THEN entries[i].total_amount ELSE 0)
            - SumSeq([k \in 1..Len(entries[i].riders) |->
                       IF entries[i].riders[k].member_id = m
                       THEN entries[i].riders[k].charge ELSE 0])])]

\* const balances = useMemo(() => computeMonthBalances(members, entries)):
\* the view is "fetched" when members and entries are in and the balances are
\* not computed yet
ComputeBalances ==
  /\ view = "fetched"
  /\ balances' = computeMonthBalances(DOMAIN members, monthData)
  /\ view' = "loaded"
  /\ UNCHANGED <<members, entriesSheet, ridersSheet, pc, req, day_total_used,
                 computed, created_at, entryData, riderData, snapEntries,
                 snapRiders, resent, prevReq, nops, res, adminRes, rated,
                 transfers, hol, loop, monthData, grp>>

\* ------------------------------------ POST /members, POST /member_rates
\* Number(x) of a JSON value of the body, written as its text ('...' a string,
\* "" a field that is absent): a finite number in mills, or NaN
NumberOf(x) ==
  IF x = "10" THEN [finite |-> TRUE, mills |-> 10000]
  ELSE IF x = "'16'" THEN [finite |-> TRUE, mills |-> 16000]
  ELSE IF x = "0" THEN [finite |-> TRUE, mills |-> 0]
  ELSE IF x = "-5" THEN [finite |-> TRUE, mills |-> -5000]
  ELSE IF x = "null" THEN [finite |-> TRUE, mills |-> 0]
  ELSE [finite |-> FALSE, mills |-> 0]

\* POST /members: name given, member_id not in the tab yet (the bodies drawn
\* give every member a name and phone of their own)
MemberAccepted(mem, b) ==
  /\ b.name # ""
  /\ b.member_id \notin DOMAIN mem

MemberRejection(mem, b) ==
  IF b.name = "" THEN [status |-> 400, error |-> "name is required"]
  ELSE [status |-> 409, error |-> "member_id already exists"]

\* appendValues(members, [newRow]) with one_way_total = two_way_total = "":
\* read back with Number() the rates are 0
AddMember(b) ==
  /\ MemberAccepted(members, b)
  /\ members' = [m \in DOMAIN members \cup {b.member_id} |->
                   IF m = b.member_id
                   THEN [one_way_total |-> 0, two_way_total |-> 0]
                   ELSE members[m]]
  /\ adminRes' = [route |-> "members", body |-> b, status |-> 201, error |-> ""]
  /\ UNCHANGED <<entriesSheet, ridersSheet, pc, req, day_total_used, computed,
                 created_at, entryData, riderData, snapEntries, snapRiders,
                 resent, prevReq, nops, res, rated, balances, transfers, view, hol,
                 loop, monthData, grp>>

RejectMember(b) ==
  /\ ~MemberAccepted(members, b)
  /\ adminRes' = [route |-> "members", body |-> b,
                  status |-> MemberRejection(members, b).status,
                  error |-> MemberRejection(members, b).error]
  /\ UNCHANGED <<members, entriesSheet, ridersSheet, pc, req, day_total_used,
                 computed, created_at, entryData, riderData, snapEntries,
                 snapRiders, resent, prevReq, nops, res, rated, balances,
                 transfers, view, hol, loop, monthData, grp>>

\* the checks of POST /member_rates with two_way_total < one_way_total let
\* through
RatesAcceptedAnyOrder(mem, b) ==
  /\ b.member_id # ""
  /\ NumberOf(b.one_way_total).finite /\ NumberOf(b.one_way_total).mills > 0
  /\ NumberOf(b.two_way_total).finite /\ NumberOf(b.two_way_total).mills > 0
  /\ b.member_id \in DOMAIN mem

\* the checks of POST /member_rates
RatesAccepted(mem, b) ==
  /\ b.member_id # ""
  /\ NumberOf(b.one_way_total).finite /\ NumberOf(b.one_way_total).mills > 0
  /\ NumberOf(b.two_way_total).finite /\ NumberOf(b.two_way_total).mills > 0
  /\ NumberOf(b.two_way_total).mills >= NumberOf(b.one_way_total).mills
  /\ DOMAIN mem # {}
  /\ b.member_id \in DOMAIN mem

RatesRejection(mem, b) ==
  IF b.member_id = ""
  THEN [status |-> 400, error |-> "member_id required"]
  ELSE IF ~NumberOf(b.one_way_total).finite \/ NumberOf(b.one_way_total).mills <= 0
  THEN [status |-> 400, error |-> "one_way_total must be positive"]
  ELSE IF ~NumberOf(b.two_way_total).finite \/ NumberOf(b.two_way_total).mills <= 0
  THEN [status |-> 400, error |-> "two_way_total must be positive"]
  ELSE IF NumberOf(b.two_way_total).mills < NumberOf(b.one_way_total).mills
  THEN [status |-> 400, error |-> "two_way_total should be >= one_way_total"]
  ELSE IF DOMAIN mem = {}
  THEN [status |-> 400, error |-> "members sheet empty"]
  ELSE [status |-> 404, error |-> "member not found"]

\* a rate update that also rewrites the totals of the member's stored entries
UpdateRatesRetroactive(b) ==
  /\ RatesAccepted(members, b)
  /\ members' = [members EXCEPT ![b.member_id] =
                   [one_way_total |-> NumberOf(b.one_way_total).mills,
                    two_way_total |-> NumberOf(b.two_way_total).mills]]
  /\ entriesSheet' =
       [i \in 1..Len(entriesSheet) |->
          IF i > 1 /\ entriesSheet[i].driver_id = b.member_id
          THEN [entriesSheet[i] EXCEPT
                  !.day_total_used = Rate(members', b.member_id, entriesSheet[i].day_type)]
          ELSE entriesSheet[i]]
  /\ rated' = rated \cup {b.member_id}
  /\ adminRes' = [route |-> "member_rates", body |-> b, status |-> 200, error |-> ""]
  /\ UNCHANGED <<ridersSheet, pc, req, day_total_used, computed,
                 created_at, entryData, riderData, snapEntries, snapRiders,
                 resent, prevReq, nops, res, balances, transfers, view, hol, loop,
                 monthData, grp>>

\* rows[rowIndex][one_way_total] = String(one), [two_way_total] = String(two);
\* setValues(members!A1:Z<rows.length>, rows): the tab rewritten at its length
UpdateRates(b) ==
  /\ RatesAccepted(members, b)
  /\ members' = [members EXCEPT ![b.member_id] =
                   [one_way_total |-> NumberOf(b.one_way_total).mills,
                    two_way_total |-> NumberOf(b.two_way_total).mills]]
  /\ rated' = rated \cup {b.member_id}
  /\ adminRes' = [route |-> "member_rates", body |-> b, status |-> 200, error |-> ""]
  /\ UNCHANGED <<entriesSheet, ridersSheet, pc, req, day_total_used, computed,
                 created_at, entryData, riderData, snapEntries, snapRiders,
                 resent, prevReq, nops, res, balances, transfers, view, hol, loop,
                 monthData, grp>>

RejectRates(b) ==
  /\ ~RatesAccepted(members, b)
  /\ adminRes' = [route |-> "member_rates", body |-> b,
                  status |-> RatesRejection(members, b).status,
                  error |-> RatesRejection(members, b).error]
  /\ UNCHANGED <<members, entriesSheet, ridersSheet, pc, req, day_total_used,
                 computed, created_at, entryData, riderData, snapEntries,
                 snapRiders, resent, prevReq, nops, res, rated, balances,
                 transfers, view, hol, loop, monthData, grp>>

\* ------------------------------------------------------ suggestTransfers
\* The balances are those computeMonthBalances returns: whole cents.  Parties
\* is the key order of the balances object (Object.entries).
Parties == <<"a", "b", "c", "d", "e">>

PartyIds == {Parties[i] : i \in 1..Len(Parties)}

NoBalances == [m \in PartyIds |-> 0]

\* round2 of an amount of whole cents
round2Cents(cents) == round2(10 * cents, FALSE)

\* for (const [id, bal] of Object.entries(balances)) { v = round2(bal); ... }
\* creditors: v > 0.01, [id, v]
Creditors(bal) ==
  Map(Filter(Parties, LAMBDA m : round2Cents(bal[m]) > 1),
      LAMBDA m : [id |-> m, amt |-> round2Cents(bal[m])])

\* the debtors with whoever is below zero at all among them
DebtorsFromZero(bal) ==
  Map(Filter(Parties, LAMBDA m : round2Cents(bal[m]) < 0),
      LAMBDA m : [id |-> m, amt |-> -round2Cents(bal[m])])

\* debtors: v < -0.01, [id, -v]
Debtors(bal) ==
  Map(Filter(Parties, LAMBDA m : round2Cents(bal[m]) < -1),
      LAMBDA m : [id |-> m, amt |-> -round2Cents(bal[m])])

\* list.sort((a, b) => b[1] - a[1]): descending by amount, stable
RECURSIVE SortDesc(_)
SortDesc(s) ==
  IF s = <<>> THEN <<>>
  ELSE LET rest == SortDesc(Tail(s))
           k == Cardinality({i \in 1..Len(rest) : rest[i].amt > Head(s).amt})
       IN  SubSeq(rest, 1, k) \o <<Head(s)>> \o SubSeq(rest, k + 1, Len(rest))

\* the loop with the creditor's remainder never written back
RECURSIVE SettleLoopKeepsCredit(_, _, _, _, _)
SettleLoopKeepsCredit(debtors, creditors, i, j, out) ==
  IF i > Len(debtors) \/ j > Len(creditors) THEN out
  ELSE LET debAmt == debtors[i].amt
           creAmt == creditors[j].amt
           x == IF debAmt < creAmt THEN debAmt ELSE creAmt
           debLeft == debAmt - x
       IN  SettleLoopKeepsCredit([debtors EXCEPT ![i].amt = debLeft],
                                 creditors,
                                 IF debLeft <= 1 THEN i + 1 ELSE i,
                                 IF creAmt <= 1 THEN j + 1 ELSE j,
                                 Append(out, [from |-> debtors[i].id,
                                              to |-> creditors[j].id, amount |-> x]))

\* while (i < debtors.length && j < creditors.length) { ... }
RECURSIVE SettleLoop(_, _, _, _, _)
SettleLoop(debtors, creditors, i, j, out) ==
  IF i > Len(debtors) \/ j > Len(creditors) THEN out
  ELSE LET debAmt == debtors[i].amt
           creAmt == creditors[j].amt
           x == IF debAmt < creAmt THEN debAmt ELSE creAmt
           debLeft == round2Cents(debAmt - x)
           creLeft == round2Cents(creAmt - x)
       IN  SettleLoop([debtors EXCEPT ![i].amt = debLeft],
                      [creditors EXCEPT ![j].amt = creLeft],
                      IF debLeft <= 1 THEN i + 1 ELSE i,
                      IF creLeft <= 1 THEN j + 1 ELSE j,
                      Append(out, [from |-> debtors[i].id, to |-> creditors[j].id,
                                   amount |-> round2Cents(x)]))

suggestTransfers(bal) ==
  SettleLoop(SortDesc(Debtors(bal)), SortDesc(Creditors(bal)), 1, 1, <<>>)

\* ------------------------------------------- suggestTransfers, by iteration
\* an iteration that moves half of the smaller amount
LoopIterationHalf(debtors, creditors, i, j) ==
  LET debAmt == debtors[i].amt
      creAmt == creditors[j].amt
      x == (IF debAmt < creAmt THEN debAmt ELSE creAmt) \div 2
      debLeft == round2Cents(debAmt - x)
      creLeft == round2Cents(creAmt - x)
  IN  [debtors |-> [debtors EXCEPT ![i].amt = debLeft],
       creditors |-> [creditors EXCEPT ![j].amt = creLeft],
       i |-> IF debLeft <= 1 THEN i + 1 ELSE i,
       j |-> IF creLeft <= 1 THEN j + 1 ELSE j,
       transfer |-> [from |-> debtors[i].id, to |-> creditors[j].id,
                     amount |-> round2Cents(x)]]

\* an iteration that moves the larger of the two amounts
LoopIterationMax(debtors, creditors, i, j) ==
  LET debAmt == debtors[i].amt
      creAmt == creditors[j].amt
      x == IF debAmt < creAmt THEN creAmt ELSE debAmt
      debLeft == round2Cents(debAmt - x)
      creLeft == round2Cents(creAmt - x)
  IN  [debtors |-> [debtors EXCEPT ![i].amt = debLeft],
       creditors |-> [creditors EXCEPT ![j].amt = creLeft],
       i |-> IF debLeft <= 1 THEN i + 1 ELSE i,
       j |-> IF creLeft <= 1 THEN j + 1 ELSE j,
       transfer |-> [from |-> debtors[i].id, to |-> creditors[j].id,
                     amount |-> round2Cents(x)]]

\* the body of the while loop: x = Math.min(debAmt, creAmt), the transfer
\* pushed, both remainders written back, i and j moved on
LoopIteration(debtors, creditors, i, j) ==
  LET debAmt == debtors[i].amt
      creAmt == creditors[j].amt
      x == IF debAmt < creAmt THEN debAmt ELSE creAmt
      debLeft == round2Cents(debAmt - x)
      creLeft == round2Cents(creAmt - x)
  IN  [debtors |-> [debtors EXCEPT ![i].amt = debLeft],
       creditors |-> [creditors EXCEPT ![j].amt = creLeft],
       i |-> IF debLeft <= 1 THEN i + 1 ELSE i,
       j |-> IF creLeft <= 1 THEN j + 1 ELSE j,
       transfer |-> [from |-> debtors[i].id, to |-> creditors[j].id,
                     amount |-> round2Cents(x)]]

\* i < debtors.length && j < creditors.length, the indices 1-based
LoopGoesOn(l) == l.i <= Len(l.debtors) /\ l.j <= Len(l.creditors)

\* the two lists filled and sorted, transfers = [], i = j = 0
StartLoop ==
  /\ view = "loaded"
  /\ loop' = [debtors |-> SortDesc(Debtors(balances)),
              creditors |-> SortDesc(Creditors(balances)), i |-> 1, j |-> 1]
  /\ transfers' = <<>>
  /\ view' = "looping"
  /\ UNCHANGED <<members, entriesSheet, ridersSheet, pc, req, day_total_used,
                 computed, created_at, entryData, riderData, snapEntries,
                 snapRiders, resent, prevReq, nops, res, adminRes, rated,
                 balances, hol, monthData, grp>>

\* one pass through the body of the while loop
LoopStep ==
  /\ view = "looping"
  /\ LoopGoesOn(loop)
  /\ LET it == LoopIteration(loop.debtors, loop.creditors, loop.i, loop.j)
     IN  /\ loop' = [debtors |-> it.debtors, creditors |-> it.creditors,
                     i |-> it.i, j |-> it.j]
         /\ transfers' = Append(transfers, it.transfer)
  /\ UNCHANGED <<members, entriesSheet, ridersSheet, pc, req, day_total_used,
                 computed, created_at, entryData, riderData, snapEntries,
                 snapRiders, resent, prevReq, nops, res, adminRes, rated,
                 balances, view, hol, monthData, grp>>

\* the loop condition fails: return transfers
LoopEnd ==
  /\ view = "looping"
  /\ ~LoopGoesOn(loop)
  /\ view' = "settled"
  /\ UNCHANGED <<members, entriesSheet, ridersSheet, pc, req, day_total_used,
                 computed, created_at, entryData, riderData, snapEntries,
                 snapRiders, resent, prevReq, nops, res, adminRes, rated,
                 balances, transfers, hol, loop, monthData, grp>>

\* ------------------------------------------------ POST /entries, by step
\* A step runs from one await on the store to the next.

\* from the request to the first store call on day_entries: the checks, the
\* driver's rate, the split, created_at
Begin(p, r, limit, track) ==
  /\ pc[p] \notin InFlight
  /\ nops < limit
  /\ Accepted(members, r)
  /\ nops' = nops + 1
  /\ req' = [req EXCEPT ![p] = r]
  /\ day_total_used' =
       [day_total_used EXCEPT ![p] = Rate(members, r.driver_id, r.day_type)]
  /\ computed' =
       [computed EXCEPT ![p] =
          Computed(Rate(members, r.driver_id, r.day_type), r.date, r.riders,
                   r.driver_id)]
  /\ created_at' = [created_at EXCEPT ![p] = nops + 1]
  /\ entryData' = [entryData EXCEPT ![p] = <<>>]
  /\ riderData' = [riderData EXCEPT ![p] = <<>>]
  /\ LET again == track /\ pc[p] = "failed" /\ req[p] = r
     IN  /\ resent' = [resent EXCEPT ![p] = again]
         /\ snapEntries' =
              [snapEntries EXCEPT ![p] =
                 IF again THEN @ ELSE IF track THEN entriesSheet ELSE <<>>]
         /\ snapRiders' =
              [snapRiders EXCEPT ![p] =
                 IF again THEN @ ELSE IF track THEN ridersSheet ELSE <<>>]
  /\ prevReq' = [prevReq EXCEPT ![p] = IF pc[p] = "done" THEN req[p] ELSE NoReq]
  /\ pc' = [pc EXCEPT ![p] = "readEntries"]
  /\ UNCHANGED <<members, entriesSheet, ridersSheet>>
  /\ res' = [res EXCEPT ![p] = NoRes]
  /\ UNCHANGED aside

\* a request that one of the checks turns away: status 400, nothing stored
Reject(p, r, limit) ==
  /\ pc[p] \notin InFlight
  /\ nops < limit
  /\ ~Accepted(members, r)
  /\ nops' = nops + 1
  /\ req' = [req EXCEPT ![p] = r]
  /\ pc' = [pc EXCEPT ![p] = "rejected"]
  /\ day_total_used' = [day_total_used EXCEPT ![p] = 0]
  /\ computed' = [computed EXCEPT ![p] = <<>>]
  /\ created_at' = [created_at EXCEPT ![p] = 0]
  /\ entryData' = [entryData EXCEPT ![p] = <<>>]
  /\ riderData' = [riderData EXCEPT ![p] = <<>>]
  /\ resent' = [resent EXCEPT ![p] = FALSE]
  /\ snapEntries' = [snapEntries EXCEPT ![p] = <<>>]
  /\ snapRiders' = [snapRiders EXCEPT ![p] = <<>>]
  /\ prevReq' = [prevReq EXCEPT ![p] = NoReq]
  /\ UNCHANGED <<members, entriesSheet, ridersSheet>>
  /\ res' = [res EXCEPT ![p] = Rejection(members, r)]
  /\ UNCHANGED aside

\* entryRows = await getValues(day_entries); entryData = entryRows or [header]
ReadEntries(p) ==
  /\ pc[p] = "readEntries"
  /\ entryData' =
       [entryData EXCEPT ![p] =
          IF Len(getValues(entriesSheet)) > 0 THEN getValues(entriesSheet)
          ELSE <<TAB_DAY_ENTRIES>>]
  /\ pc' = [pc EXCEPT ![p] = "writeEntries"]
  /\ UNCHANGED <<members, entriesSheet, ridersSheet, req, day_total_used,
                 computed, created_at, riderData, snapEntries, snapRiders,
                 resent, prevReq, nops>>
  /\ UNCHANGED <<res, aside>>

\* existingIdx > 0: the row is replaced and the whole tab written back;
\* otherwise the row is appended
WriteEntries(p) ==
  /\ pc[p] = "writeEntries"
  /\ LET existingIdx == ExistingIdx(entryData[p], req[p].date)
     IN  entriesSheet' =
           IF existingIdx > 1
           THEN setValues(entriesSheet,
                          [entryData[p] EXCEPT ![existingIdx] = EntryRow(p)])
           ELSE appendValues(entriesSheet, <<EntryRow(p)>>)
  /\ pc' = [pc EXCEPT ![p] = "readRiders"]
  /\ UNCHANGED <<members, ridersSheet, req, day_total_used, computed,
                 created_at, entryData, riderData, snapEntries, snapRiders,
                 resent, prevReq, nops>>
  /\ UNCHANGED <<res, aside>>

\* riderRows = await getValues(day_riders); riderData = riderRows or [header]
ReadRiders(p) ==
  /\ pc[p] = "readRiders"
  /\ riderData' =
       [riderData EXCEPT ![p] =
          IF Len(getValues(ridersSheet)) > 0 THEN getValues(ridersSheet)
          ELSE <<TAB_DAY_RIDERS>>]
  /\ pc' = [pc EXCEPT ![p] = "writeRiders"]
  /\ UNCHANGED <<members, entriesSheet, ridersSheet, req, day_total_used,
                 computed, created_at, entryData, snapEntries, snapRiders,
                 resent, prevReq, nops>>
  /\ UNCHANGED <<res, aside>>

\* await setValues(day_riders!A1:E<kept.length>, kept); status 201
WriteRiders(p) ==
  /\ pc[p] = "writeRiders"
  /\ ridersSheet' =
       setValues(ridersSheet, Kept(riderData[p], req[p].date, computed[p]))
  /\ pc' = [pc EXCEPT ![p] = "done"]
  /\ UNCHANGED <<members, entriesSheet, req, day_total_used, computed,
                 created_at, entryData, riderData, snapEntries, snapRiders,
                 resent, prevReq, nops>>
  /\ res' = [res EXCEPT ![p] = [status |-> 201, error |-> ""]]
  /\ UNCHANGED aside

\* a store call throws: the call has no effect, the catch block answers 500
StoreFails(p) ==
  /\ pc[p] \in InFlight
  /\ pc' = [pc EXCEPT ![p] = "failed"]
  /\ UNCHANGED <<members, entriesSheet, ridersSheet, req, day_total_used,
                 computed, created_at, entryData, riderData, snapEntries,
                 snapRiders, resent, prevReq, nops>>
  /\ res' = [res EXCEPT ![p] = [status |-> 500, error |-> "Failed to save entry"]]
  /\ UNCHANGED aside

\* ------------------------------------------------------------ GET /holidays
\* A Date of the handler is a local midnight and is kept as its day number,
\* days since 1970-01-01.  A formatted date "YYYY-MM-DD" is kept as its three
\* numbers and a month "YYYY-MM" as its two: pad2 gives the fields a fixed
\* width, so startsWith compares year and month.
MaxYear == 2030

Years == 2021..MaxYear

IsLeap(y) == (y % 4 = 0 /\ y % 100 # 0) \/ y % 400 = 0

DaysInMonth(y, m) ==
  IF m = 2 THEN (IF IsLeap(y) THEN 29 ELSE 28)
  ELSE IF m \in {4, 6, 9, 11} THEN 30
  ELSE 31

LeapsThrough(y) == (y \div 4) - (y \div 100) + (y \div 400)

\* the day number of January 1
YearStart(y) == 365 * (y - 1970) + LeapsThrough(y - 1) - LeapsThrough(1969)

RECURSIVE MonthStart(_, _)
MonthStart(y, m) ==
  IF m = 1 THEN YearStart(y) ELSE MonthStart(y, m - 1) + DaysInMonth(y, m - 1)

\* new Date(year, monthIdx0, day): a day outside the month rolls over, day 0
\* is the last day of the month before
NewDate(year, monthIdx0, day) == MonthStart(year, monthIdx0 + 1) + day - 1

getFullYear(d) ==
  CHOOSE y \in 2020..(MaxYear + 1) : YearStart(y) <= d /\ d < YearStart(y + 1)

getMonth(d) ==
  LET y == getFullYear(d)
  IN  CHOOSE m \in 0..11 :
        /\ MonthStart(y, m + 1) <= d
        /\ d < MonthStart(y, m + 1) + DaysInMonth(y, m + 1)

getDate(d) == d - MonthStart(getFullYear(d), getMonth(d) + 1) + 1

\* 0 is Sunday; 1970-01-01 was a Thursday
getDay(d) == (d + 4) % 7

\* obs.setDate(n): day n of the month obs is in, rolling over like new Date
setDate(obs, n) == NewDate(getFullYear(obs), getMonth(obs), n)

fmtDate(d) == <<getFullYear(d), getMonth(d) + 1, getDate(d)>>

nthWeekdayOfMonth(year, monthIdx0, weekday0Sun, nth) ==
  LET first == NewDate(year, monthIdx0, 1)
      offset == (weekday0Sun - getDay(first) + 7) % 7
      day == 1 + offset + (nth - 1) * 7
  IN  NewDate(year, monthIdx0, day)

lastWeekdayOfMonth(year, monthIdx0, weekday0Sun) ==
  LET last == NewDate(year, monthIdx0 + 1, 0)
      offset == (getDay(last) - weekday0Sun + 7) % 7
  IN  NewDate(year, monthIdx0, getDate(last) - offset)

\* a Saturday moved on to the Monday after it
observedFixedDateHolidayOnMonday(year, monthIdx0, day) ==
  LET d == NewDate(year, monthIdx0, day)
      dow == getDay(d)
  IN  IF dow = 6 THEN setDate(d, getDate(d) + 2)
      ELSE IF dow = 0 THEN setDate(d, getDate(d) + 1)
      ELSE d

observedFixedDateHoliday(year, monthIdx0, day) ==
  LET d == NewDate(year, monthIdx0, day)
      dow == getDay(d)
  IN  IF dow = 6 THEN setDate(d, getDate(d) - 1)
      ELSE IF dow = 0 THEN setDate(d, getDate(d) + 1)
      ELSE d

usFederalHolidaysObservedForYear(year) ==
  Map(<<[date |-> observedFixedDateHoliday(year, 0, 1), name |-> "New Year's Day"],
        [date |-> nthWeekdayOfMonth(year, 0, 1, 3), name |-> "MLK Day"],
        [date |-> nthWeekdayOfMonth(year, 1, 1, 3), name |-> "Presidents's Day"],
        [date |-> lastWeekdayOfMonth(year, 4, 1), name |-> "Memorial Day"],
        [date |-> observedFixedDateHoliday(year, 5, 19), name |-> "Juneteenth Day"],
        [date |-> observedFixedDateHoliday(year, 6, 4), name |-> "Independence Day"],
        [date |-> nthWeekdayOfMonth(year, 8, 1, 1), name |-> "Labor Day"],
        [date |-> nthWeekdayOfMonth(year, 9, 1, 2), name |-> "Columbus Day"],
        [date |-> observedFixedDateHoliday(year, 10, 11), name |-> "Veterans Day"],
        [date |-> nthWeekdayOfMonth(year, 10, 4, 4), name |-> "Thanksgiving Day"],
        [date |-> observedFixedDateHoliday(year, 11, 25), name |-> "Christmas Day"]>>,
      LAMBDA h : [date |-> fmtDate(h.date), name |-> h.name])

\* h.date.startsWith(month)
DateStartsWith(date, month) == date[1] = month[1] /\ date[2] = month[2]

\* the months asked for: every month of Years; <<>> is a month parameter that
\* is absent or not of the form YYYY-MM
HolidayMonths == {<<y, m>> : y \in Years, m \in 1..12}

\* year = Number(month.slice(0, 4)); the year's list filtered by the month
GetHolidays ==
  /\ hol.status = 0
  /\ hol.month # <<>>
  /\ LET year == hol.month[1]
         list == usFederalHolidaysObservedForYear(year)
     IN  hol' = [month |-> hol.month, status |-> 200, year_list |-> list,
                 holidays |-> Filter(list, LAMBDA h :
                                       DateStartsWith(h.date, hol.month))]
  /\ UNCHANGED <<members, entriesSheet, ridersSheet, pc, req, day_total_used,
                 computed, created_at, entryData, riderData, snapEntries,
                 snapRiders, resent, prevReq, nops, res, adminRes, rated,
                 balances, transfers, view, loop, monthData, grp>>

\* 400 "month required as YYYY-MM"
RejectHolidays ==
  /\ hol.status = 0
  /\ hol.month = <<>>
  /\ hol' = [hol EXCEPT !.status = 400]
  /\ UNCHANGED <<members, entriesSheet, ridersSheet, pc, req, day_total_used,
                 computed, created_at, entryData, riderData, snapEntries,
                 snapRiders, resent, prevReq, nops, res, adminRes, rated,
                 balances, transfers, view, loop, monthData, grp>>

\* ------------------------------------------------ the multi-group backend
\* The backend variant with groups: every request but /holidays carries the
\* headers x-group-id and x-join-code, the members, day_entries and
\* day_riders rows carry a group_id, and the handlers look at the rows of the
\* group of the request.  A handler is one step here: one request at a time,
\* no store call failing.
MaxGroupOps == 3

GroupIds == {"g1", "g2"}

\* the groups tab: group_id -> join_code, active
GroupsTab ==
  [g \in GroupIds \cup {"g3"} |->
     IF g = "g1" THEN [join_code |-> "j1", active |-> TRUE]
     ELSE IF g = "g2" THEN [join_code |-> "j2", active |-> TRUE]
     ELSE [join_code |-> "j3", active |-> FALSE]]

GROUP_DAY_ENTRIES ==
  [entry_id |-> "entry_id", date |-> "date", driver_id |-> "driver_id",
   day_type |-> "day_type", day_total_used |-> 0, total_amount |-> 0,
   notes |-> "notes", created_at |-> 0, group_id |-> "group_id"]

GROUP_DAY_RIDERS ==
  [entry_id |-> "entry_id", member_id |-> "member_id",
   trip_type |-> "trip_type", units |-> 0, charge |-> 0,
   group_id |-> "group_id"]

\* the members tab of the variant: "a" and "b" in g1, "c" in g2, rates set
GroupMembers ==
  [m \in MemberIds |->
     IF m = "a" THEN [name |-> "al", one_way_total |-> 10000,
                      two_way_total |-> 16000, group_id |-> "g1"]
     ELSE IF m = "b" THEN [name |-> "bo", one_way_total |-> 7000,
                           two_way_total |-> 9000, group_id |-> "g1"]
     ELSE [name |-> "cy", one_way_total |-> 6000, two_way_total |-> 8000,
           group_id |-> "g2"]]

\* requireGroup: the response it sends, NoRes when it calls next()
requireGroup(h) ==
  IF h.group_id = "" \/ h.join_code = ""
  THEN [status |-> 401, error |-> "Missing x-group-id / x-join-code"]
  ELSE IF h.group_id \notin DOMAIN GroupsTab
  THEN [status |-> 401, error |-> "Invalid group"]
  ELSE IF ~GroupsTab[h.group_id].active
  THEN [status |-> 403, error |-> "Group inactive"]
  ELSE IF GroupsTab[h.group_id].join_code # h.join_code
  THEN [status |-> 401, error |-> "Invalid join code"]
  ELSE NoRes

\* the first rider the loop over riders answers for; 0 when for none
GroupBadRider(mem, g, riders) ==
  FindIndex(riders, LAMBDA x, i : \/ x.member_id \notin DOMAIN mem
                                  \/ mem[x.member_id].group_id # g
                                  \/ x.trip_type \notin {"one_way", "two_way"})

\* the early returns of POST /entries in the order of the handler, NoRes when
\* it goes on to the split
GroupRejection(mem, g, r) ==
  IF r.date \notin Dates
  THEN [status |-> 400, error |-> "date required as YYYY-MM-DD"]
  ELSE IF r.driver_id = ""
  THEN [status |-> 400, error |-> "driver_id required"]
  ELSE IF r.day_type \notin {"one_way", "two_way"}
  THEN [status |-> 400, error |-> "day_type must be one_way or two_way"]
  ELSE IF Len(r.riders) = 0
  THEN [status |-> 400, error |-> "riders must be a non-empty array"]
  ELSE IF ~\E i \in 1..Len(r.riders) : r.riders[i].member_id = r.driver_id
  THEN [status |-> 400, error |-> "Driver must be included in riders"]
  ELSE IF DOMAIN mem = {}
  THEN [status |-> 400, error |-> "members sheet empty"]
  ELSE IF r.driver_id \notin DOMAIN mem
  THEN [status |-> 400, error |-> "Driver not found in members"]
  ELSE IF mem[r.driver_id].group_id # g
  THEN [status |-> 403, error |-> "Driver not in this group"]
  ELSE IF GroupBadRider(mem, g, r.riders) > 0
  THEN LET x == r.riders[GroupBadRider(mem, g, r.riders)]
       IN  IF x.member_id \notin DOMAIN mem
           THEN [status |-> 400, error |-> "Unknown rider member_id"]
           ELSE IF mem[x.member_id].group_id # g
           THEN [status |-> 403, error |-> "Rider not in this group"]
           ELSE [status |-> 400,
                 error |-> "riders.trip_type must be one_way or two_way"]
  ELSE IF Rate(mem, r.driver_id, r.day_type) <= 0
  THEN [status |-> 400,
        error |-> "Driver rates not set (one_way_total/two_way_total)"]
  ELSE NoRes

\* the day_riders rows of the request: the computed rows with the group_id
GroupComputed(mem, g, r) ==
  Map(Computed(Rate(mem, r.driver_id, r.day_type), r.date, r.riders, r.driver_id),
      LAMBDA c : [entry_id |-> c.entry_id, member_id |-> c.member_id,
                  trip_type |-> c.trip_type, units |-> c.units,
                  charge |-> c.charge, group_id |-> g])

GroupEntryRow(mem, g, r, at) ==
  [entry_id |-> r.date, date |-> r.date, driver_id |-> r.driver_id,
   day_type |-> r.day_type,
   day_total_used |-> Rate(mem, r.driver_id, r.day_type),
   total_amount |-> TotalAmount(GroupComputed(mem, g, r)),
   notes |-> r.notes, created_at |-> at, group_id |-> g]

\* entryData.findIndex((r, i) => i > 0 && date === date && group_id === group)
GroupExistingIdx(rows, date, g) ==
  FindIndex(rows, LAMBDA r, i : i > 1 /\ r.date = date /\ r.group_id = g)

\* [rh, ...riderData.slice(1).filter(r => !(eid === date && gid === group))]
\* and the computed rows pushed after them
GroupKept(rows, date, g, comp) ==
  <<Head(rows)>>
    \o Filter(Tail(rows), LAMBDA r : ~(r.entry_id = date /\ r.group_id = g))
    \o comp

\* GET /entries: the rows of the month and of the group, riders attached by
\* entry_id from the rider rows of the group, sorted by date
GroupGetEntries(entryRows, riderRows, g, month) ==
  LET found ==
        IF Len(entryRows) > 1
        THEN Map(Filter(Tail(entryRows),
                        LAMBDA r : StartsWith(r.date, month) /\ r.group_id = g),
                 LAMBDA r : [entry_id |-> r.entry_id, date |-> r.date,
                             driver_id |-> r.driver_id, day_type |-> r.day_type,
                             day_total_used |-> r.day_total_used,
                             total_amount |-> r.total_amount, notes |-> r.notes,
                             created_at |-> r.created_at, group_id |-> r.group_id,
                             riders |-> <<>>])
        ELSE <<>>
      own == IF Len(riderRows) > 1
             THEN <<Head(riderRows)>>
                    \o Filter(Tail(riderRows), LAMBDA r : r.group_id = g)
             ELSE riderRows
  IN  SortByDate(AttachRiders(found, own))

\* the record of a request and its response
GroupAnswer(route, h, body, status, data) ==
  [route |-> route, group_id |-> h.group_id, join_code |-> h.join_code,
   body |-> body, status |-> status, data |-> data, n |-> grp.n + 1]

\* POST /entries of the variant
GroupUpsert(h, r) ==
  /\ grp.n < MaxGroupOps
  /\ requireGroup(h) = NoRes
  /\ GroupRejection(members, h.group_id, r) = NoRes
  /\ LET g == h.group_id
         comp == GroupComputed(members, g, r)
         row == GroupEntryRow(members, g, r, grp.n + 1)
         entryRows == IF Len(getValues(entriesSheet)) > 0
                      THEN getValues(entriesSheet) ELSE <<GROUP_DAY_ENTRIES>>
         existingIdx == GroupExistingIdx(entryRows, r.date, g)
         riderRows == IF Len(getValues(ridersSheet)) > 0
                      THEN getValues(ridersSheet) ELSE <<GROUP_DAY_RIDERS>>
     IN  /\ entriesSheet' =
              IF existingIdx > 1
              THEN setValues(entriesSheet, [entryRows EXCEPT ![existingIdx] = row])
              ELSE appendValues(entriesSheet, <<row>>)
         /\ ridersSheet' =
              setValues(ridersSheet, GroupKept(riderRows, r.date, g, comp))
         /\ grp' = GroupAnswer("POST /entries", h, r, 201, comp)
  /\ UNCHANGED <<members, pc, req, day_total_used, computed, created_at,
                 entryData, riderData, snapEntries, snapRiders, resent, prevReq,
                 nops, res, adminRes, rated, balances, transfers, view, hol,
                 loop, monthData>>

GroupRejectUpsert(h, r) ==
  /\ grp.n < MaxGroupOps
  /\ LET answer == (IF requireGroup(h) # NoRes THEN requireGroup(h)
                ELSE GroupRejection(members, h.group_id, r))
     IN  /\ answer # NoRes
         /\ grp' = GroupAnswer("POST /entries", h, r, answer.status, <<>>)
  /\ UNCHANGED <<members, entriesSheet, ridersSheet, pc, req, day_total_used,
                 computed, created_at, entryData, riderData, snapEntries,
                 snapRiders, resent, prevReq, nops, res, adminRes, rated,
                 balances, transfers, view, hol, loop, monthData>>

\* member_id = `m_${Date.now()}`: an id no row has yet
FreshIds == <<"m1", "m2", "m3", "m4">>

FreshId(mem) ==
  FreshIds[CHOOSE i \in 1..Len(FreshIds) :
             /\ FreshIds[i] \notin DOMAIN mem
             /\ \A k \in 1..(i - 1) : FreshIds[k] \in DOMAIN mem]

\* POST /members of the variant: name of two characters or more, no member of
\* the group with that name
GroupMemberRejection(mem, g, b) ==
  IF b.name = "" THEN [status |-> 400, error |-> "name required"]
  ELSE IF \E m \in DOMAIN mem : mem[m].group_id = g /\ mem[m].name = b.name
  THEN [status |-> 409, error |-> "Member name already exists in this group"]
  ELSE NoRes

GroupAddMember(h, b) ==
  /\ grp.n < MaxGroupOps
  /\ requireGroup(h) = NoRes
  /\ GroupMemberRejection(members, h.group_id, b) = NoRes
  /\ members' = [m \in DOMAIN members \cup {FreshId(members)} |->
                   IF m = FreshId(members)
                   THEN [name |-> b.name, one_way_total |-> 0,
                         two_way_total |-> 0, group_id |-> h.group_id]
                   ELSE members[m]]
  /\ grp' = GroupAnswer("POST /members", h, b, 201, <<FreshId(members)>>)
  /\ UNCHANGED <<entriesSheet, ridersSheet, pc, req, day_total_used, computed,
                 created_at, entryData, riderData, snapEntries, snapRiders,
                 resent, prevReq, nops, res, adminRes, rated, balances,
                 transfers, view, hol, loop, monthData>>

GroupRejectMember(h, b) ==
  /\ grp.n < MaxGroupOps
  /\ LET answer == (IF requireGroup(h) # NoRes THEN requireGroup(h)
                ELSE GroupMemberRejection(members, h.group_id, b))
     IN  /\ answer # NoRes
         /\ grp' = GroupAnswer("POST /members", h, b, answer.status, <<>>)
  /\ UNCHANGED <<members, entriesSheet, ridersSheet, pc, req, day_total_used,
                 computed, created_at, entryData, riderData, snapEntries,
                 snapRiders, resent, prevReq, nops, res, adminRes, rated,
                 balances, transfers, view, hol, loop, monthData>>

\* POST /member_rates of the variant: the checks of the body, then the row
\* by member_id, then its group
GroupRatesRejection(mem, g, b) ==
  IF b.member_id = ""
  THEN [status |-> 400, error |-> "member_id required"]
  ELSE IF ~NumberOf(b.one_way_total).finite \/ NumberOf(b.one_way_total).mills <= 0
  THEN [status |-> 400, error |-> "one_way_total must be positive"]
  ELSE IF ~NumberOf(b.two_way_total).finite \/ NumberOf(b.two_way_total).mills <= 0
  THEN [status |-> 400, error |-> "two_way_total must be positive"]
  ELSE IF NumberOf(b.two_way_total).mills < NumberOf(b.one_way_total).mills
  THEN [status |-> 400, error |-> "two_way_total should be >= one_way_total"]
  ELSE IF DOMAIN mem = {}
  THEN [status |-> 400, error |-> "members sheet empty"]
  ELSE IF b.member_id \notin DOMAIN mem
  THEN [status |-> 404, error |-> "member not found"]
  ELSE IF mem[b.member_id].group_id # g
  THEN [status |-> 403, error |-> "Member not in this group"]
  ELSE NoRes

GroupUpdateRates(h, b) ==
  /\ grp.n < MaxGroupOps
  /\ requireGroup(h) = NoRes
  /\ GroupRatesRejection(members, h.group_id, b) = NoRes
  /\ members' = [members EXCEPT
                   ![b.member_id].one_way_total = NumberOf(b.one_way_total).mills,
                   ![b.member_id].two_way_total = NumberOf(b.two_way_total).mills]
  /\ grp' = GroupAnswer("POST /member_rates", h, b, 200, <<>>)
  /\ UNCHANGED <<entriesSheet, ridersSheet, pc, req, day_total_used, computed,
                 created_at, entryData, riderData, snapEntries, snapRiders,
                 resent, prevReq, nops, res, adminRes, rated, balances,
                 transfers, view, hol, loop, monthData>>

GroupRejectRates(h, b) ==
  /\ grp.n < MaxGroupOps
  /\ LET answer == (IF requireGroup(h) # NoRes THEN requireGroup(h)
                ELSE GroupRatesRejection(members, h.group_id, b))
     IN  /\ answer # NoRes
         /\ grp' = GroupAnswer("POST /member_rates", h, b, answer.status, <<>>)
  /\ UNCHANGED <<members, entriesSheet, ridersSheet, pc, req, day_total_used,
                 computed, created_at, entryData, riderData, snapEntries,
                 snapRiders, resent, prevReq, nops, res, adminRes, rated,
                 balances, transfers, view, hol, loop, monthData>>

\* GET /entries?month= of the variant
GroupRead(h, month) ==
  /\ grp.n < MaxGroupOps
  /\ requireGroup(h) = NoRes
  /\ grp' = GroupAnswer("GET /entries", h, month, 200,
                      GroupGetEntries(getValues(entriesSheet),
                                      getValues(ridersSheet), h.group_id, month))
  /\ UNCHANGED <<members, entriesSheet, ridersSheet, pc, req, day_total_used,
                 computed, created_at, entryData, riderData, snapEntries,
                 snapRiders, resent, prevReq, nops, res, adminRes, rated,
                 balances, transfers, view, hol, loop, monthData>>

GroupRejectRead(h, month) ==
  /\ grp.n < MaxGroupOps
  /\ LET answer == requireGroup(h)
     IN  /\ answer # NoRes
         /\ grp' = GroupAnswer("GET /entries", h, month, answer.status, <<>>)
  /\ UNCHANGED <<members, entriesSheet, ridersSheet, pc, req, day_total_used,
                 computed, created_at, entryData, riderData, snapEntries,
                 snapRiders, resent, prevReq, nops, res, adminRes, rated,
                 balances, transfers, view, hol, loop, monthData>>

\* ------------------------------------------------------- specifications
\* "c" was added and never given rates: Number("") is 0
StoreRates ==
  [m \in MemberIds |->
     IF m = "a" THEN [one_way_total |-> 10000, two_way_total |-> 16000]
     ELSE IF m = "b" THEN [one_way_total |-> 7000, two_way_total |-> 9000]
     ELSE [one_way_total |-> 0, two_way_total |-> 0]]

Init ==
  /\ members = StoreRates
  /\ entriesSheet = <<TAB_DAY_ENTRIES>>
  /\ ridersSheet = <<TAB_DAY_RIDERS>>
  /\ pc = [p \in Procs |-> "idle"]
  /\ req = [p \in Procs |-> NoReq]
  /\ day_total_used = [p \in Procs |-> 0]
  /\ computed = [p \in Procs |-> <<>>]
  /\ created_at = [p \in Procs |-> 0]
  /\ entryData = [p \in Procs |-> <<>>]
  /\ riderData = [p \in Procs |-> <<>>]
  /\ snapEntries = [p \in Procs |-> <<>>]
  /\ snapRiders = [p \in Procs |-> <<>>]
  /\ resent = [p \in Procs |-> FALSE]
  /\ prevReq = [p \in Procs |-> NoReq]
  /\ nops = 0
  /\ hol = NoHolidays
  /\ loop = NoLoop
  /\ monthData = <<>>
  /\ grp = NoGroupReq
  /\ res = [p \in Procs |-> NoRes]
  /\ adminRes = NoAdmin
  /\ rated = {"a", "b"}
  /\ balances = NoBalances
  /\ transfers = <<>>
  /\ view = "loaded"

\* one client, one request at a time, no store failure
Next ==
  \/ \E r \in StoreRequests : Begin(1, r, MaxOps, FALSE)
  \/ \E r \in StoreRequests : Reject(1, r, MaxOps)
  \/ ReadEntries(1)
  \/ WriteEntries(1)
  \/ ReadRiders(1)
  \/ WriteRiders(1)

Spec == Init /\ [][Next]_vars

\* one client, one request at a time; any store call of the handler may throw
NextFail ==
  \/ \E r \in StoreRequests : Begin(1, r, MaxOps, TRUE)
  \/ \E r \in StoreRequests : Reject(1, r, MaxOps)
  \/ ReadEntries(1)
  \/ WriteEntries(1)
  \/ ReadRiders(1)
  \/ WriteRiders(1)
  \/ StoreFails(1)

SpecFail == Init /\ [][NextFail]_vars

\* two clients; the handlers interleave at their awaits
ConcRequests ==
  [date : Dates, driver_id : {"a", "b"}, day_type : {"one_way"},
   riders : {<<Rider("b", "one_way"), Rider("a", "two_way")>>}, notes : {""}]

NextConc ==
  \E p \in Procs :
    \/ \E r \in ConcRequests : Begin(p, r, MaxConcOps, FALSE)
    \/ ReadEntries(p)
    \/ WriteEntries(p)
    \/ ReadRiders(p)
    \/ WriteRiders(p)

SpecConc == Init /\ [][NextConc]_vars

\* the split alone: driver "a" with any rate up to MaxRate mills and any
\* rider list up to MaxRiders

RECURSIVE RiderLists(_)
RiderLists(n) ==
  IF n = 0 THEN {<<>>}
  ELSE RiderLists(n - 1) \cup
       {Append(l, x) : l \in {k \in RiderLists(n - 1) : Len(k) = n - 1},
                       x \in [member_id : {"a", "b"}, trip_type : TripTypes]}

SplitRequests ==
  [date : {"2025-01-06"}, driver_id : {"a"}, day_type : {"one_way"},
   riders : RiderLists(MaxRiders), notes : {""}]

InitSplit ==
  /\ \E rate \in 1..MaxRate :
       members = [StoreRates EXCEPT !["a"] =
                    [one_way_total |-> rate, two_way_total |-> rate]]
  /\ entriesSheet = <<TAB_DAY_ENTRIES>>
  /\ ridersSheet = <<TAB_DAY_RIDERS>>
  /\ pc = [p \in Procs |-> "idle"]
  /\ req = [p \in Procs |-> NoReq]
  /\ day_total_used = [p \in Procs |-> 0]
  /\ computed = [p \in Procs |-> <<>>]
  /\ created_at = [p \in Procs |-> 0]
  /\ entryData = [p \in Procs |-> <<>>]
  /\ riderData = [p \in Procs |-> <<>>]
  /\ snapEntries = [p \in Procs |-> <<>>]
  /\ snapRiders = [p \in Procs |-> <<>>]
  /\ resent = [p \in Procs |-> FALSE]
  /\ prevReq = [p \in Procs |-> NoReq]
  /\ nops = 0
  /\ hol = NoHolidays
  /\ loop = NoLoop
  /\ monthData = <<>>
  /\ grp = NoGroupReq
  /\ res = [p \in Procs |-> NoRes]
  /\ adminRes = NoAdmin
  /\ rated = {"a", "b"}
  /\ balances = NoBalances
  /\ transfers = <<>>
  /\ view = "loaded"

NextSplit ==
  \/ \E r \in SplitRequests : Begin(1, r, MaxOps, FALSE)
  \/ \E r \in SplitRequests : Reject(1, r, MaxOps)

SpecSplit == InitSplit /\ [][NextSplit]_vars

\* the checks of the handler: bodies that are well-formed and bodies that are
\* not, in every field; "z" is no member, "" stands for a field that is
\* missing, and a riders value that is no array fails the same test as the
\* empty array
MaxCheckOps == 2

CheckRiderLists ==
  { <<Rider("b", "one_way"), Rider("a", "two_way")>>,
    <<>>,
    <<Rider("b", "one_way")>>,
    <<Rider("a", "two_way"), Rider("", "one_way")>>,
    <<Rider("a", "two_way"), Rider("z", "one_way")>>,
    <<Rider("a", "two_way"), Rider("b", "round_trip")>>,
    <<Rider("c", "one_way"), Rider("a", "one_way")>> }

CheckRequests ==
  [date : {"2025-01-06", "2025-1-6"}, driver_id : {"a", "", "c", "z"},
   day_type : {"one_way", "weekly"}, riders : CheckRiderLists, notes : {""}]

NextCheck ==
  \/ \E r \in CheckRequests : Begin(1, r, MaxCheckOps, TRUE)
  \/ \E r \in CheckRequests : Reject(1, r, MaxCheckOps)
  \/ ReadEntries(1)
  \/ WriteEntries(1)
  \/ ReadRiders(1)
  \/ WriteRiders(1)
  \/ StoreFails(1)

SpecCheck == Init /\ [][NextCheck]_vars

\* members and rates: the members tab starts with its header row only,
\* members come in by POST /members, rates by POST /member_rates, entries by
\* up to MaxRateOps upserts
MaxRateOps == 2

MemberBodies == [member_id : {"a", "b"}, name : {"", "n"}]

\* the rate pairs sent: in order, equal, out of order, zero, negative, null,
\* not a number, absent
RatePairs ==
  { <<"10", "'16'">>, <<"'16'", "'16'">>, <<"10", "10">>, <<"'16'", "10">>,
    <<"0", "10">>, <<"10", "-5">>, <<"null", "'16'">>, <<"'abc'", "10">>,
    <<"10", "">> }

\* every pair for "a", two pairs in order for "b"; "z" is no member, "" a
\* member_id that is absent
RateBodies ==
  {[member_id |-> "a", one_way_total |-> x[1], two_way_total |-> x[2]] :
     x \in RatePairs}
  \cup {[member_id |-> m, one_way_total |-> "10", two_way_total |-> x] :
          m \in {"b"}, x \in {"10", "'16'"}}
  \cup {[member_id |-> m, one_way_total |-> "10", two_way_total |-> "'16'"] :
          m \in {"z", ""}}

RateRequests ==
  [date : Dates, driver_id : {"a", "b"}, day_type : {"one_way"},
   riders : {<<Rider("a", "one_way"), Rider("b", "two_way")>>}, notes : {""}]

InitRates ==
  /\ members = [m \in {} |-> [one_way_total |-> 0, two_way_total |-> 0]]
  /\ rated = {}
  /\ entriesSheet = <<TAB_DAY_ENTRIES>>
  /\ ridersSheet = <<TAB_DAY_RIDERS>>
  /\ pc = [p \in Procs |-> "idle"]
  /\ req = [p \in Procs |-> NoReq]
  /\ day_total_used = [p \in Procs |-> 0]
  /\ computed = [p \in Procs |-> <<>>]
  /\ created_at = [p \in Procs |-> 0]
  /\ entryData = [p \in Procs |-> <<>>]
  /\ riderData = [p \in Procs |-> <<>>]
  /\ snapEntries = [p \in Procs |-> <<>>]
  /\ snapRiders = [p \in Procs |-> <<>>]
  /\ resent = [p \in Procs |-> FALSE]
  /\ prevReq = [p \in Procs |-> NoReq]
  /\ nops = 0
  /\ hol = NoHolidays
  /\ loop = NoLoop
  /\ monthData = <<>>
  /\ grp = NoGroupReq
  /\ res = [p \in Procs |-> NoRes]
  /\ adminRes = NoAdmin
  /\ balances = NoBalances
  /\ transfers = <<>>
  /\ view = "loaded"

NextRates ==
  \/ \E b \in MemberBodies : AddMember(b)
  \/ \E b \in MemberBodies : RejectMember(b)
  \/ \E b \in RateBodies : UpdateRates(b)
  \/ \E b \in RateBodies : RejectRates(b)
  \/ \E r \in RateRequests : Begin(1, r, MaxRateOps, FALSE)
  \/ \E r \in RateRequests : Reject(1, r, MaxRateOps)
  \/ ReadEntries(1)
  \/ WriteEntries(1)
  \/ ReadRiders(1)
  \/ WriteRiders(1)

SpecRates == InitRates /\ [][NextRates]_vars

\* the settlement alone: any balances of the parties within the values below
MaxBalance == 12

BalanceValues == {-MaxBalance, -8, -1, 0, 2, 6, 8}

\* const transfers = useMemo(() => suggestTransfers(balances), [balances])
Settle ==
  /\ view = "loaded"
  /\ transfers' = suggestTransfers(balances)
  /\ view' = "settled"
  /\ UNCHANGED <<members, entriesSheet, ridersSheet, pc, req, day_total_used,
                 computed, created_at, entryData, riderData, snapEntries,
                 snapRiders, resent, prevReq, nops, res, adminRes, rated,
                 balances, hol, loop, monthData, grp>>

InitSettle ==
  /\ balances \in [PartyIds -> BalanceValues]
  /\ transfers = <<>>
  /\ view = "loaded"
  /\ members = StoreRates
  /\ entriesSheet = <<TAB_DAY_ENTRIES>>
  /\ ridersSheet = <<TAB_DAY_RIDERS>>
  /\ pc = [p \in Procs |-> "idle"]
  /\ req = [p \in Procs |-> NoReq]
  /\ day_total_used = [p \in Procs |-> 0]
  /\ computed = [p \in Procs |-> <<>>]
  /\ created_at = [p \in Procs |-> 0]
  /\ entryData = [p \in Procs |-> <<>>]
  /\ riderData = [p \in Procs |-> <<>>]
  /\ snapEntries = [p \in Procs |-> <<>>]
  /\ snapRiders = [p \in Procs |-> <<>>]
  /\ resent = [p \in Procs |-> FALSE]
  /\ prevReq = [p \in Procs |-> NoReq]
  /\ nops = 0
  /\ hol = NoHolidays
  /\ loop = NoLoop
  /\ monthData = <<>>
  /\ grp = NoGroupReq
  /\ res = [p \in Procs |-> NoRes]
  /\ adminRes = NoAdmin
  /\ rated = {"a", "b"}

NextSettle == Settle

SpecSettle == InitSettle /\ [][NextSettle]_vars

\* ---------------------------------------------------------------- claims
Quiet == \A p \in Procs : pc[p] \notin InFlight

DataRows(sheet) == IF Len(sheet) > 1 THEN Tail(sheet) ELSE <<>>

RowsOf(sheet, date) == Filter(DataRows(sheet), LAMBDA r : r.entry_id = date)

Count(rows, row) == Cardinality({i \in 1..Len(rows) : rows[i] = row})

SameRows(s, t) ==
  /\ Len(s) = Len(t)
  /\ \A i \in 1..Len(s) : Count(s, s[i]) = Count(t, s[i])

\* C1: the charges the upsert computes sum to round2(dayTotal), to the cent,
\* and total_amount is that value
C1_SplitConservation ==
  \A p \in Procs :
    pc[p] = "readEntries" =>
      /\ SumCharges(computed[p]) = round2(day_total_used[p], FALSE)
      /\ TotalAmount(computed[p]) = round2(day_total_used[p], FALSE)

\* C2: after completed, non-overlapping upserts every entry the month read
\* returns has total_amount equal to the sum of the charges of its riders
C2_ReadTotalIsSumOfCharges ==
  Quiet =>
    \A month \in Months :
      LET es == GetEntries(getValues(entriesSheet), getValues(ridersSheet), month)
      IN  \A i \in 1..Len(es) :
            es[i].total_amount = SumSeq(Map(es[i].riders, LAMBDA r : r.charge))

\* C3: after an upsert for a date that was saved before, the rider rows of the
\* date are exactly the riders of the later upsert and the rider rows of every
\* other date are as they were
C3_ResaveSupersedesRiders ==
  \A p \in Procs :
    (pc[p] = "done" /\ ExistingIdx(entryData[p], req[p].date) > 1) =>
      /\ RowsOf(ridersSheet, req[p].date) = computed[p]
      /\ \A d \in Dates \ {req[p].date} :
            RowsOf(ridersSheet, d) = RowsOf(riderData[p], d)

\* C4: the entries tab holds at most one row per date, each with entry_id equal
\* to its date, and an upsert for a date that has a row replaces that row
C4_OneEntryPerDate ==
  /\ \A i \in 2..Len(entriesSheet) :
        /\ entriesSheet[i].entry_id = entriesSheet[i].date
        /\ \A j \in 2..Len(entriesSheet) :
              entriesSheet[j].date = entriesSheet[i].date => j = i
  /\ \A p \in Procs :
        (pc[p] \in {"readRiders", "writeRiders", "done"}
           /\ ExistingIdx(entryData[p], req[p].date) > 1) =>
          /\ Len(entriesSheet) = Len(entryData[p])
          /\ entriesSheet[ExistingIdx(entryData[p], req[p].date)] = EntryRow(p)

C4_Witness ==
  /\ pc[1] = "done"
  /\ ExistingIdx(entryData[1], req[1].date) = 2
  /\ Len(entriesSheet) = 3
  /\ entriesSheet[2].driver_id # entryData[1][2].driver_id

\* C5: saving the same body twice in a row leaves the entry row (created_at
\* aside) and the rider rows as they were after the first save
C5_SameSaveTwice ==
  \A p \in Procs :
    (pc[p] = "done" /\ prevReq[p] = req[p]) =>
      /\ Len(entriesSheet) = Len(entryData[p])
      /\ \A i \in 2..Len(entriesSheet) :
            [entriesSheet[i] EXCEPT !.created_at = 0]
              = [entryData[p][i] EXCEPT !.created_at = 0]
      /\ SameRows(DataRows(ridersSheet), DataRows(riderData[p]))

\* the handler of p has put its entry row over the row of the earlier save
\* (another driver or another total) while the rider rows of the date are
\* still those of the earlier save
TornWrite(p) ==
  LET d == req[p].date
      k == ExistingIdx(entryData[p], d)
  IN  /\ pc[p] \in {"readRiders", "writeRiders", "failed"}
      /\ k > 1
      /\ entriesSheet[k] = EntryRow(p)
      /\ \/ entryData[p][k].driver_id # req[p].driver_id
         \/ entryData[p][k].total_amount # TotalAmount(computed[p])
      /\ RowsOf(ridersSheet, d) = RowsOf(snapRiders[p], d)

\* C6: no reachable state holds the new entry row of a date together with the
\* rider rows of the earlier save, be it between the store calls of an upsert
\* or after an upsert that failed partway
C6_EntryAndRidersTogether == \A p \in Procs : ~TornWrite(p)

\* what one successful run of the request of p makes of the tabs e and r
OnceEntries(e, p) ==
  LET data == IF Len(e) > 0 THEN e ELSE <<TAB_DAY_ENTRIES>>
      k == ExistingIdx(data, req[p].date)
  IN  IF k > 1 THEN setValues(e, [data EXCEPT ![k] = EntryRow(p)])
      ELSE appendValues(e, <<EntryRow(p)>>)

OnceRiders(r, p) ==
  setValues(r, Kept(IF Len(r) > 0 THEN r ELSE <<TAB_DAY_RIDERS>>,
                    req[p].date, computed[p]))

C8_OneEntryUnderRace ==
  (pc[1] = "done" /\ pc[2] = "done" /\ req[1].date = req[2].date) =>
    /\ Cardinality({i \in 2..Len(entriesSheet) :
                      entriesSheet[i].date = req[1].date}) = 1
    /\ \/ RowsOf(ridersSheet, req[1].date) = computed[1]
       \/ RowsOf(ridersSheet, req[1].date) = computed[2]

\* C9: an upsert without its driver among the riders gets no further than the
\* checks, and every stored entry has a rider row of its driver (stated for
\* the states in which no request is in flight)
C9_DriverAmongRiders ==
  /\ \A p \in Procs :
        pc[p] \in InFlight \cup {"done", "failed"} =>
          \E i \in 1..Len(req[p].riders) :
            req[p].riders[i].member_id = req[p].driver_id
  /\ Quiet =>
        \A i \in 2..Len(entriesSheet) :
          \E j \in 2..Len(ridersSheet) :
            /\ ridersSheet[j].entry_id = entriesSheet[i].entry_id
            /\ ridersSheet[j].member_id = entriesSheet[i].driver_id

\* C10: the balances computed from what the month read returns sum to zero
C10_BalancesSumToZero ==
  Quiet =>
    \A month \in Months :
      LET b == computeMonthBalances(
                 MemberIds,
                 GetEntries(getValues(entriesSheet), getValues(ridersSheet), month))
          ks == DOMAIN b
          RECURSIVE Total(_)
          Total(S) == IF S = {} THEN 0
                      ELSE LET k == CHOOSE x \in S : TRUE
                           IN  b[k] + Total(S \ {k})
      IN  Total(ks) = 0

\* ------------------------------------------------- claims on the settlement
RECURSIVE SumOver(_, _)
SumOver(f, S) ==
  IF S = {} THEN 0
  ELSE LET k == CHOOSE x \in S : TRUE IN f[k] + SumOver(f, S \ {k})

\* the balances after the transfers of plan are paid: the payer's balance
\* rises by the amount, the receiver's falls by it
Replay(bal, plan) ==
  [m \in DOMAIN bal |->
     bal[m]
       + SumSeq([k \in 1..Len(plan) |-> IF plan[k].from = m THEN plan[k].amount ELSE 0])
       - SumSeq([k \in 1..Len(plan) |-> IF plan[k].to = m THEN plan[k].amount ELSE 0])]

\* C11: for balances that sum to zero, paying all the transfers returned
\* leaves every member's balance within one cent of zero
C11_TransfersSettle ==
  (view = "settled" /\ SumOver(balances, PartyIds) = 0) =>
    \A m \in PartyIds : Abs(Replay(balances, transfers)[m]) <= 1

NonZero(bal) == Cardinality({m \in DOMAIN bal : bal[m] # 0})

\* C12: the number of transfers is at most the number of members with a
\* non-zero balance, less one
C12_TransferCount ==
  view = "settled" => Len(transfers) <= NonZero(balances) - 1

\* C12, amended: ... whenever some member has a non-zero balance (with no
\* such member there are no transfers)
C12_TransferCountAmended ==
  view = "settled" =>
    IF NonZero(balances) = 0 THEN transfers = <<>>
    ELSE Len(transfers) <= NonZero(balances) - 1

\* the bound met with every party in the plan
C12_Witness ==
  /\ view = "settled"
  /\ NonZero(balances) = Len(Parties)
  /\ Len(transfers) = Len(Parties) - 1

\* the transfers a plan may be made of: from a member who owes to a member who
\* is owed, any amount up to the largest balance
PlanSteps(bal) ==
  [from : {m \in DOMAIN bal : bal[m] < 0}, to : {m \in DOMAIN bal : bal[m] > 0},
   amount : 1..MaxBalance]

\* the plan pays every balance off
Settles(bal, plan) == \A m \in DOMAIN bal : Replay(bal, plan)[m] = 0

\* C13: for balances that sum to zero, no list of transfers that settles them
\* is shorter than the list returned
C13_FewestTransfers ==
  (view = "settled" /\ SumOver(balances, PartyIds) = 0) =>
    \A k \in 0..(Len(transfers) - 1) :
      \A plan \in [1..k -> PlanSteps(balances)] : ~Settles(balances, plan)

\* --------------------------------------------------- claims on the checks
\* what the checks at the head of the handler are there to turn away
BoundaryInvalid(r) ==
  \/ r.date \notin Dates
  \/ r.driver_id = ""
  \/ r.day_type \notin TripTypes
  \/ Len(r.riders) = 0
  \/ ~\E i \in 1..Len(r.riders) : r.riders[i].member_id = r.driver_id

\* C14: an upsert with a malformed date, no driver_id, a day_type outside the
\* two, no riders or its driver not among the riders is answered 400 and
\* leaves the entries tab and the riders tab as they were
C14_BoundaryRejected ==
  [][(nops' = nops + 1 /\ BoundaryInvalid(req'[1])) =>
       /\ pc'[1] = "rejected"
       /\ res'[1].status = 400
       /\ entriesSheet' = entriesSheet
       /\ ridersSheet' = ridersSheet]_vars

\* turned away with rows of an earlier save in the store
C14_Witness ==
  /\ pc[1] = "rejected"
  /\ BoundaryInvalid(req[1])
  /\ req[1].date \in Dates
  /\ res[1] = [status |-> 400, error |-> "Driver must be included in riders"]
  /\ Len(entriesSheet) > 1
  /\ Len(ridersSheet) > 1

InvalidRider(mem, x) ==
  \/ x.member_id = ""
  \/ x.member_id \notin DOMAIN mem
  \/ x.trip_type \notin TripTypes

\* C15: an upsert with a rider that has no member_id, is no member or has a
\* trip_type outside the two is answered 400, not with the answer of a store
\* failure, and never reaches the store
C15_InvalidRiderRejected ==
  \A p \in Procs :
    (pc[p] # "idle"
       /\ \E i \in 1..Len(req[p].riders) : InvalidRider(members, req[p].riders[i])) =>
      /\ pc[p] = "rejected"
      /\ res[p].status = 400

\* ------------------------------------------ claims on members and rates
RatesNotSet ==
  [status |-> 400, error |-> "Driver rates not set (one_way_total/two_way_total)"]

\* C16: an upsert whose driver has no rate above zero for the day_type is
\* answered with the error of its own and writes nothing; with members coming
\* in by member-add only, an upsert that is carried out has a driver whose
\* rates a rate update has set, and every stored entry has day_total_used > 0
C16_RatesBeforeEntries ==
  /\ [][(/\ nops' = nops + 1
          /\ ~BoundaryInvalid(req'[1])
          /\ req'[1].driver_id \in DOMAIN members
          /\ Rate(members, req'[1].driver_id, req'[1].day_type) <= 0) =>
            /\ pc'[1] = "rejected"
            /\ res'[1] = RatesNotSet
            /\ entriesSheet' = entriesSheet
            /\ ridersSheet' = ridersSheet]_vars
  /\ [](\A p \in Procs :
          pc[p] \in InFlight \cup {"done"} => req[p].driver_id \in rated)
  /\ [](\A i \in 2..Len(entriesSheet) : entriesSheet[i].day_total_used > 0)

\* an entry of "a" is stored and the upsert of "b", added and never rated, is
\* turned away
C16_Witness ==
  /\ pc[1] = "rejected"
  /\ res[1] = RatesNotSet
  /\ req[1].driver_id \notin rated
  /\ Len(entriesSheet) > 1

BothSet(r) == r.one_way_total > 0 /\ r.two_way_total > 0

\* a body /member_rates has to turn away
BadRates(b) ==
  \/ ~NumberOf(b.one_way_total).finite
  \/ ~NumberOf(b.two_way_total).finite
  \/ NumberOf(b.one_way_total).mills <= 0
  \/ NumberOf(b.two_way_total).mills <= 0
  \/ NumberOf(b.two_way_total).mills < NumberOf(b.one_way_total).mills

\* C17: every member with both rates set has two_way_total >= one_way_total;
\* a rate update with two_way_total < one_way_total or with a rate that is
\* not positive or not a number is answered 400 and leaves the members as
\* they were
C17_RatesInOrder ==
  /\ [](\A m \in DOMAIN members :
          BothSet(members[m]) => members[m].two_way_total >= members[m].one_way_total)
  /\ [][(adminRes'.route = "member_rates" /\ BadRates(adminRes'.body)) =>
          (adminRes'.status = 400 /\ members' = members)]_vars

\* a member with rates, and an update out of order turned away
C17_Witness ==
  /\ adminRes.route = "member_rates"
  /\ adminRes.error = "two_way_total should be >= one_way_total"
  /\ adminRes.body.member_id \in DOMAIN members
  /\ BothSet(members[adminRes.body.member_id])
  /\ members[adminRes.body.member_id].two_way_total
       > members[adminRes.body.member_id].one_way_total

MonthBalances(mem, e, r, month) ==
  computeMonthBalances(DOMAIN mem, GetEntries(getValues(e), getValues(r), month))

\* C18: a rate update leaves every stored entry and every stored rider charge
\* as it was, and with them the balances of every month; an upsert takes the
\* rate the members tab holds when it is made
C18_RatesNotRetroactive ==
  /\ [][(adminRes'.route = "member_rates" /\ members' # members) =>
          /\ entriesSheet' = entriesSheet
          /\ ridersSheet' = ridersSheet
          /\ \A month \in Months :
                MonthBalances(members', entriesSheet', ridersSheet', month)
                  = MonthBalances(members, entriesSheet, ridersSheet, month)]_vars
  /\ [][(nops' = nops + 1 /\ pc'[1] = "readEntries") =>
          day_total_used'[1] = Rate(members', req'[1].driver_id, req'[1].day_type)]_vars
  /\ [](\A p \in Procs :
          pc[p] \in {"readRiders", "writeRiders", "done"} =>
            \E i \in 2..Len(entriesSheet) :
              /\ entriesSheet[i].date = req[p].date
              /\ entriesSheet[i].day_total_used = day_total_used[p])

\* two entries of one driver and day_type, the earlier at the old rate, the
\* later at the new one
C18_Witness ==
  /\ pc[1] = "done"
  /\ Len(entriesSheet) = 3
  /\ entriesSheet[2].driver_id = entriesSheet[3].driver_id
  /\ entriesSheet[2].day_type = entriesSheet[3].day_type
  /\ entriesSheet[2].day_total_used # entriesSheet[3].day_total_used
  /\ entriesSheet[3].day_total_used
       = Rate(members, entriesSheet[3].driver_id, entriesSheet[3].day_type)

\* --------------------------------------------------- claims on the drift
\* the charges of the request of p before the drift correction
RawOf(p) == RawCharges(day_total_used[p], RiderUnits(req[p].date, req[p].riders))

\* C19: the drift added to the driver's charge is below one cent per rider
C19_DriftBelowCentPerRider ==
  \A p \in Procs :
    pc[p] = "readEntries" =>
      Abs(Drift(day_total_used[p], RawOf(p))) < Len(req[p].riders)

\* C20: the day total less the sum of the rounded charges is at most half a
\* cent (5 mills) for every rider but one
C20_DriftWithinHalfCents ==
  \A p \in Procs :
    pc[p] = "readEntries" =>
      Abs(day_total_used[p] - 10 * SumCharges(RawOf(p)))
        <= 5 * (Len(req[p].riders) - 1)

\* C20, amended: ... at most half a cent for every rider
C20_DriftWithinHalfCentsAmended ==
  \A p \in Procs :
    pc[p] = "readEntries" =>
      Abs(day_total_used[p] - 10 * SumCharges(RawOf(p)))
        <= 5 * Len(req[p].riders)

\* the bound met: a day total of one cent, two riders charged one cent each
C20_Witness ==
  /\ pc[1] = "readEntries"
  /\ day_total_used[1] = 10
  /\ Len(req[1].riders) = 2
  /\ SumCharges(RawOf(1)) = 2

\* ------------------------------------------------- claims on the holidays
\* no request in flight and nothing computed; what each specification below
\* draws differs from it
Idle ==
  /\ pc = [p \in Procs |-> "idle"]
  /\ req = [p \in Procs |-> NoReq]
  /\ day_total_used = [p \in Procs |-> 0]
  /\ computed = [p \in Procs |-> <<>>]
  /\ created_at = [p \in Procs |-> 0]
  /\ entryData = [p \in Procs |-> <<>>]
  /\ riderData = [p \in Procs |-> <<>>]
  /\ snapEntries = [p \in Procs |-> <<>>]
  /\ snapRiders = [p \in Procs |-> <<>>]
  /\ resent = [p \in Procs |-> FALSE]
  /\ prevReq = [p \in Procs |-> NoReq]
  /\ nops = 0
  /\ res = [p \in Procs |-> NoRes]
  /\ adminRes = NoAdmin
  /\ rated = {"a", "b"}
  /\ transfers = <<>>

AtRest ==
  /\ Idle
  /\ view = "loaded"
  /\ members = StoreRates
  /\ entriesSheet = <<TAB_DAY_ENTRIES>>
  /\ ridersSheet = <<TAB_DAY_RIDERS>>

\* a request to GET /holidays for any month of Years, or without a month
InitHolidays ==
  /\ AtRest
  /\ hol \in {[NoHolidays EXCEPT !.month = m] : m \in HolidayMonths \cup {<<>>}}
  /\ balances = NoBalances
  /\ loop = NoLoop
  /\ monthData = <<>>
  /\ grp = NoGroupReq

NextHolidays ==
  \/ GetHolidays
  \/ RejectHolidays

SpecHolidays == InitHolidays /\ [][NextHolidays]_vars

\* the day of the week of a calendar date by Zeller's congruence: 0 Saturday,
\* 1 Sunday, ..., 6 Friday
Zeller(y, m, d) ==
  LET mm == IF m < 3 THEN m + 12 ELSE m
      yy == IF m < 3 THEN y - 1 ELSE y
      K == yy % 100
      J == yy \div 100
  IN  (d + ((13 * (mm + 1)) \div 5) + K + (K \div 4) + (J \div 4) + 5 * J) % 7

\* the rule of the observed date, on calendar dates
ObservedRule(y, m, d) ==
  IF Zeller(y, m, d) = 0
  THEN (IF d > 1 THEN <<y, m, d - 1>> ELSE <<y - 1, 12, 31>>)
  ELSE IF Zeller(y, m, d) = 1 THEN <<y, m, d + 1>>
  ELSE <<y, m, d>>

FixedDateHolidays ==
  { <<"New Year's Day", 1, 1>>, <<"Juneteenth Day", 6, 19>>,
    <<"Independence Day", 7, 4>>, <<"Veterans Day", 11, 11>>,
    <<"Christmas Day", 12, 25>> }

\* the dates the year's list gives the holiday of that name
DatesOf(list, name) ==
  {list[i].date : i \in {k \in 1..Len(list) : list[k].name = name}}

\* C21: in the list of every year each of the five fixed-date holidays stands
\* on its literal date when that is a Monday to Friday, on the day before when
\* it is a Saturday (December 31 of the year before for January 1) and on the
\* day after when it is a Sunday; Juneteenth 2027 is 2027-06-18 and New Year's
\* Day 2028 is 2027-12-31
C21_ObservedWeekendRule ==
  hol.status = 200 =>
    /\ \A h \in FixedDateHolidays :
         DatesOf(hol.year_list, h[1]) = {ObservedRule(hol.month[1], h[2], h[3])}
    /\ hol.month[1] = 2027 =>
         DatesOf(hol.year_list, "Juneteenth Day") = {<<2027, 6, 18>>}
    /\ hol.month[1] = 2028 =>
         DatesOf(hol.year_list, "New Year's Day") = {<<2027, 12, 31>>}

\* the list of 2028 is computed and has New Year's Day on 2027-12-31
C21_Witness ==
  /\ hol.status = 200
  /\ hol.month[1] = 2028
  /\ \E i \in 1..Len(hol.year_list) :
       hol.year_list[i] = [date |-> <<2027, 12, 31>>, name |-> "New Year's Day"]

\* the observed holidays of the years around the month asked for
ObservedAround(year) ==
  UNION {{usFederalHolidaysObservedForYear(y)[i] : i \in 1..11} :
           y \in {year - 1, year, year + 1}}

\* C29: the response to GET /holidays?month=M holds exactly the observed
\* federal holidays whose observed date lies in M, an observed New Year's Day
\* on December 31 of the year before included
C29_HolidayQueryExact ==
  hol.status = 200 =>
    {hol.holidays[i] : i \in 1..Len(hol.holidays)} =
      {h \in ObservedAround(hol.month[1]) : DateStartsWith(h.date, hol.month)}

\* ---------------------------------------------- claims on the group variant
\* the credentials sent: those of g1 and of g2, g2 with the join code of g1,
\* the inactive g3, and none
GroupHeaders ==
  { [group_id |-> "g1", join_code |-> "j1"], [group_id |-> "g2", join_code |-> "j2"],
    [group_id |-> "g2", join_code |-> "j1"], [group_id |-> "g3", join_code |-> "j3"],
    [group_id |-> "", join_code |-> ""] }

\* upserts within g1, within g2 and across the two
GroupRequests ==
  [date : Dates, driver_id : {"a", "c"}, day_type : {"one_way"},
   riders : { <<Rider("a", "one_way")>>,
              <<Rider("a", "one_way"), Rider("b", "one_way")>>,
              <<Rider("c", "one_way")>>,
              <<Rider("a", "one_way"), Rider("c", "one_way")>> },
   notes : {""}]

GroupMemberBodies == [name : {"", "al", "dy"}]

GroupRateBodies ==
  [member_id : {"a", "c", "z"}, one_way_total : {"10"},
   two_way_total : {"'16'", "0"}]

InitGroup ==
  /\ Idle
  /\ view = "loaded"
  /\ members = GroupMembers
  /\ entriesSheet = <<GROUP_DAY_ENTRIES>>
  /\ ridersSheet = <<GROUP_DAY_RIDERS>>
  /\ grp = NoGroupReq
  /\ hol = NoHolidays
  /\ balances = NoBalances
  /\ loop = NoLoop
  /\ monthData = <<>>

NextGroup ==
  \E h \in GroupHeaders :
    \/ \E r \in GroupRequests : GroupUpsert(h, r)
    \/ \E r \in GroupRequests : GroupRejectUpsert(h, r)
    \/ \E b \in GroupMemberBodies : GroupAddMember(h, b)
    \/ \E b \in GroupMemberBodies : GroupRejectMember(h, b)
    \/ \E b \in GroupRateBodies : GroupUpdateRates(h, b)
    \/ \E b \in GroupRateBodies : GroupRejectRates(h, b)
    \/ GroupRead(h, "2025-01")
    \/ GroupRejectRead(h, "2025-01")

SpecGroup == InitGroup /\ [][NextGroup]_vars

\* the rows of a tab that belong to a group, in sheet order
GroupRowsOf(sheet, g) == Filter(DataRows(sheet), LAMBDA r : r.group_id = g)

\* the member rows of a group
GroupMembersOf(mem, g) ==
  [m \in {x \in DOMAIN mem : mem[x].group_id = g} |-> mem[m]]

\* C22: a request made with the credentials of a group leaves the member
\* rows, the entry rows and the rider rows of every other group as they were,
\* and the month read of a group returns entries and riders of that group only
C22_GroupIsolation ==
  /\ [][grp'.n = grp.n + 1 =>
          \A g \in GroupIds \ {grp'.group_id} :
            /\ GroupMembersOf(members', g) = GroupMembersOf(members, g)
            /\ GroupRowsOf(entriesSheet', g) = GroupRowsOf(entriesSheet, g)
            /\ GroupRowsOf(ridersSheet', g) = GroupRowsOf(ridersSheet, g)]_vars
  /\ [](grp.route = "GET /entries" /\ grp.status = 200 =>
          \A i \in 1..Len(grp.data) :
            /\ grp.data[i].group_id = grp.group_id
            /\ \A k \in 1..Len(grp.data[i].riders) :
                 \E n \in 2..Len(ridersSheet) :
                   /\ ridersSheet[n].group_id = grp.group_id
                   /\ ridersSheet[n].entry_id = grp.data[i].entry_id
                   /\ ridersSheet[n].member_id = grp.data[i].riders[k].member_id
                   /\ ridersSheet[n].charge = grp.data[i].riders[k].charge)

\* ---------------------------------------------- claims on the balances
MaxEntries == 2

\* a rider with a charge, as GET /entries returns it
Charged(m, c) ==
  [member_id |-> m, trip_type |-> "one_way", units |-> 1, charge |-> c]

\* entries as the frontend holds them: total_amount 0 or 10.00, with the
\* charges adding up to the total and not
LoadedEntries ==
  [entry_id : {"2025-01-06"}, date : {"2025-01-06"}, driver_id : {"a", "b"},
   total_amount : {0, 1000},
   riders : { <<>>, <<Charged("a", 1000)>>,
              <<Charged("a", 500), Charged("b", 500)>>,
              <<Charged("b", 333), Charged("c", 334), Charged("a", 333)>> }]

RECURSIVE EntryLists(_)
EntryLists(n) ==
  IF n = 0 THEN {<<>>}
  ELSE EntryLists(n - 1) \cup
       {Append(l, e) : l \in {k \in EntryLists(n - 1) : Len(k) = n - 1},
                       e \in LoadedEntries}

\* the member lists: all three, "a" and "b", "a" alone
LoadedMembers ==
  {[m \in ids |-> StoreRates[m]] : ids \in {{"a", "b", "c"}, {"a", "b"}, {"a"}}}

InitBalances ==
  /\ Idle
  /\ view = "fetched"
  /\ members \in LoadedMembers
  /\ monthData \in EntryLists(MaxEntries)
  /\ entriesSheet = <<TAB_DAY_ENTRIES>>
  /\ ridersSheet = <<TAB_DAY_RIDERS>>
  /\ balances = NoBalances
  /\ hol = NoHolidays
  /\ loop = NoLoop
  /\ grp = NoGroupReq

NextBalances == ComputeBalances

SpecBalances == InitBalances /\ [][NextBalances]_vars

\* what m is owed over the entries: the totals of the entries m drove less
\* m's charges, in cents
OwedOver(m, es) ==
  SumSeq([i \in 1..Len(es) |->
            IF es[i].driver_id = m THEN es[i].total_amount ELSE 0])
  - SumSeq([i \in 1..Len(es) |->
              SumSeq([k \in 1..Len(es[i].riders) |->
                        IF es[i].riders[k].member_id = m
                        THEN es[i].riders[k].charge ELSE 0])])

\* C23: every member of the list has a balance, which is the total_amount of
\* the entries the member drove less the member's charges over all entries in
\* which the member rides; 0 for a member in no entry
C23_BalanceFormula ==
  view = "loaded" =>
    \A m \in DOMAIN members :
      /\ m \in DOMAIN balances
      /\ balances[m] = OwedOver(m, monthData)

\* ------------------------------------------------ claims on the loop
\* suggestTransfers run iteration by iteration on any balances of InitSettle
NextLoop ==
  \/ StartLoop
  \/ LoopStep
  \/ LoopEnd

SpecLoop == InitSettle /\ [][NextLoop]_vars

\* C24: at every iteration the debtor taken owes the most and the creditor
\* taken is owed the most among the parties whose remaining amount is above
\* one cent
C24_LargestRemaining ==
  (view = "looping" /\ LoopGoesOn(loop)) =>
    /\ \A k \in 1..Len(loop.debtors) :
         loop.debtors[k].amt > 1 => loop.debtors[loop.i].amt >= loop.debtors[k].amt
    /\ \A k \in 1..Len(loop.creditors) :
         loop.creditors[k].amt > 1 =>
           loop.creditors[loop.j].amt >= loop.creditors[k].amt

\* C25: every iteration moves i or j on (or both) and the loop is left as
\* soon as one of the two lists is used up, so a call makes fewer iterations
\* than there are debtors and creditors and returns
C25_LoopTerminates ==
  /\ [][view = "looping" =>
          IF LoopGoesOn(loop)
          THEN /\ view' = "looping"
               /\ loop'.i >= loop.i /\ loop'.j >= loop.j
               /\ loop'.i > loop.i \/ loop'.j > loop.j
          ELSE view' = "settled"]_vars
  /\ [](\/ transfers = <<>>
        \/ Len(transfers) <= Len(loop.debtors) + Len(loop.creditors) - 1)

\* a call that made four iterations and returned
C25_Witness ==
  /\ view = "settled"
  /\ Len(transfers) = 4
  /\ loop.i > Len(loop.debtors)
  /\ loop.j > Len(loop.creditors)

\* the parties named in the transfers
Payers == {transfers[k].from : k \in 1..Len(transfers)}

Payees == {transfers[k].to : k \in 1..Len(transfers)}

\* C26: every transfer has an amount above 0, goes from a member whose
\* balance is below -0.01 to a member whose balance is above 0.01, the two
\* are not the same, and a member within a cent of zero is in no transfer
C26_TransfersWellFormed ==
  /\ \A k \in 1..Len(transfers) :
       /\ transfers[k].amount > 0
       /\ balances[transfers[k].from] < -1
       /\ balances[transfers[k].to] > 1
       /\ transfers[k].from # transfers[k].to
  /\ \A m \in PartyIds :
       Abs(balances[m]) <= 1 => m \notin Payers \cup Payees

\* a call that returned transfers while a member a cent below zero and a
\* member at zero stayed out of them
C26_Witness ==
  /\ view = "settled"
  /\ Len(transfers) >= 2
  /\ \E m \in PartyIds : balances[m] = -1 /\ m \notin Payers \cup Payees
  /\ \E m \in PartyIds : balances[m] = 0 /\ m \notin Payers \cup Payees

\* what m has paid and what m has received in the transfers so far
Paid(m) ==
  SumSeq([k \in 1..Len(transfers) |->
            IF transfers[k].from = m THEN transfers[k].amount ELSE 0])

Received(m) ==
  SumSeq([k \in 1..Len(transfers) |->
            IF transfers[k].to = m THEN transfers[k].amount ELSE 0])

\* C30: a debtor never pays more in all than the debtor owes, a creditor
\* never receives more than the creditor is owed, and the remaining amounts
\* of the loop are never below 0
C30_NeverOverSettles ==
  /\ \A m \in PartyIds :
       /\ Paid(m) <= (IF balances[m] < 0 THEN -balances[m] ELSE 0)
       /\ Received(m) <= (IF balances[m] > 0 THEN balances[m] ELSE 0)
  /\ \A k \in 1..Len(loop.debtors) : loop.debtors[k].amt >= 0
  /\ \A k \in 1..Len(loop.creditors) : loop.creditors[k].amt >= 0

\* a debtor who paid the whole debt in two transfers and a creditor who
\* received less than is owed
C30_Witness ==
  /\ view = "settled"
  /\ \E m \in PartyIds :
       /\ balances[m] < 0 /\ Paid(m) = -balances[m]
       /\ Cardinality({k \in 1..Len(transfers) : transfers[k].from = m}) = 2
  /\ \E m \in PartyIds : balances[m] > 0 /\ Received(m) < balances[m]

\* ------------------------------------------------ claims on the charges
\* the split for rates in whole cents: driver "a" with a rate of 1..MaxCents
\* cents and any rider list up to MaxCentRiders
MaxCents == 3

MaxCentRiders == 4

CentRequests ==
  [date : {"2025-01-06"}, driver_id : {"a"}, day_type : {"one_way"},
   riders : RiderLists(MaxCentRiders), notes : {""}]

InitCents ==
  /\ Idle
  /\ view = "loaded"
  /\ \E cents \in 1..MaxCents :
       members = [StoreRates EXCEPT !["a"] =
                    [one_way_total |-> 10 * cents, two_way_total |-> 10 * cents]]
  /\ entriesSheet = <<TAB_DAY_ENTRIES>>
  /\ ridersSheet = <<TAB_DAY_RIDERS>>
  /\ balances = NoBalances
  /\ hol = NoHolidays
  /\ loop = NoLoop
  /\ monthData = <<>>
  /\ grp = NoGroupReq

NextCents ==
  \/ \E r \in CentRequests : Begin(1, r, MaxOps, FALSE)
  \/ \E r \in CentRequests : Reject(1, r, MaxOps)

SpecCents == InitCents /\ [][NextCents]_vars

\* C27: with a driver rate in whole cents every charge of an accepted upsert,
\* the driver's after the drift correction included, is at least 0
C27_ChargesNonNegative ==
  \A i \in 1..Len(computed[1]) : computed[1][i].charge >= 0

\* ------------------------------------------- claims on concurrent upserts
\* C28: when two upserts for different dates have both completed, whatever
\* the order of their store reads and writes, the store holds for each date
\* one entry row and exactly the rider rows its upsert computed, and no other
\* rows
C28_DifferentDatesIndependent ==
  (pc[1] = "done" /\ pc[2] = "done" /\ req[1].date # req[2].date) =>
    /\ \A p \in Procs :
         /\ RowsOf(ridersSheet, req[p].date) = computed[p]
         /\ Len(RowsOf(entriesSheet, req[p].date)) = 1
    /\ Len(DataRows(ridersSheet)) = Len(computed[1]) + Len(computed[2])
    /\ Len(DataRows(entriesSheet)) = 2

====
